---------------------------- MODULE Spec2Model ----------------------------
(***************************************************************************)
(* LwPKT (lightweight packet protocol, lwpkt.c v1.3.0) and the LwRB ring   *)
(* buffer it reads from and writes to.                                     *)
(*                                                                         *)
(* Representation.  A byte is a number in 0..255.  A C uint32_t is a pair  *)
(* <<hi, lo>> of 16-bit halves (value hi * 65536 + lo), so that the 32-bit *)
(* arithmetic of the CRC, of the variable-length fields and of the         *)
(* millisecond clock keeps its width.  size_t values that stay small       *)
(* (indices, payload lengths handed to lwpkt_write) are plain numbers.     *)
(***************************************************************************)
EXTENDS Integers, Sequences, FiniteSets, TLC

(***************************************************************************)
(* Bit operations of C on bytes and on uint32_t                            *)
(***************************************************************************)

RECURSIVE XorBits(_, _, _)
\* a ^ b on the low n bits, bit by bit
XorBits(a, b, n) ==
    IF n = 0 THEN 0
    ELSE ((a + b) % 2) + 2 * XorBits(a \div 2, b \div 2, n - 1)

\* a ^ b for two 4-bit values, tabulated (the table is an explicit value)
XorTab == [a \in 0..15 |-> [b \in 0..15 |-> XorBits(a, b, 4)] @@ <<>>] @@ <<>>

\* a ^ b for two bytes
Xor8(a, b) == XorTab[a % 16][b % 16] + 16 * XorTab[a \div 16][b \div 16]

\* a ^ b for two 16-bit halves
Xor16(a, b) == Xor8(a % 256, b % 256) + 256 * Xor8(a \div 256, b \div 256)

\* a & b for two 16-bit halves: a + b = (a ^ b) + 2 * (a & b)
And16(a, b) == (a + b - Xor16(a, b)) \div 2

\* a | b for two 16-bit halves
Or16(a, b) == Xor16(a, b) + And16(a, b)

\* the uint32_t with value n, for 0 <= n < 2^31
U32(n) == <<n \div 65536, n % 65536>>

U32_ZERO == <<0, 0>>

\* 0xFFFFFFFF
U32_MAX == <<65535, 65535>>

U32Xor(a, b) == <<Xor16(a[1], b[1]), Xor16(a[2], b[2])>>

U32Or(a, b) == <<Or16(a[1], b[1]), Or16(a[2], b[2])>>

\* 2^k
Pow2(k) == 2 ^ k

\* a >> k for a uint32_t a and 0 <= k <= 16
U32Shr(a, k) ==
    <<a[1] \div Pow2(k), (a[2] \div Pow2(k)) + (a[1] % Pow2(k)) * Pow2(16 - k)>>

\* (uint32_t)v << s for a byte v and 0 <= s < 32: the bits shifted past bit 31 are lost
U32ShlByte(v, s) ==
    IF s < 16
    THEN <<((v * Pow2(s)) \div 65536) % 65536, (v * Pow2(s)) % 65536>>
    ELSE <<(v * Pow2(s - 16)) % 65536, 0>>

\* a > 0x7F
U32Gt7F(a) == a[1] > 0 \/ a[2] > 127

\* a > 0
U32Gt0(a) == a[1] > 0 \/ a[2] > 0

\* a + n in uint32_t arithmetic, for 0 <= n < 2^16
U32Add(a, n) == <<(a[1] + ((a[2] + n) \div 65536)) % 65536, (a[2] + n) % 65536>>

\* a - b in uint32_t arithmetic (modulo 2^32)
U32Sub(a, b) ==
    <<(65536 + a[1] - b[1] - (IF a[2] < b[2] THEN 1 ELSE 0)) % 65536,
      (65536 + a[2] - b[2]) % 65536>>

\* a >= n for a uint32_t a and 0 <= n < 2^16
U32Ge(a, n) == a[1] > 0 \/ a[2] >= n

\* e, once v has its value: the statements that compute v come first
After(v, e) == CASE v = v -> e

\* the array f as an explicit value: every element is evaluated when the
\* array is built, as a memcpy does, instead of when it is next looked at
Copied(f) == f @@ <<>>


(***************************************************************************)
(* Configuration: lwpkt_opt.h modes and the instance flag byte             *)
(***************************************************************************)

LWPKT_FLAG_USE_CRC == 1
LWPKT_FLAG_USE_ADDR == 2
LWPKT_FLAG_USE_CMD == 4
LWPKT_FLAG_ADDR_EXTENDED == 8
LWPKT_FLAG_USE_FLAGS == 16
LWPKT_FLAG_CRC32 == 32

LWPKT_START_BYTE == 170
LWPKT_STOP_BYTE == 85

\* 0xEDB88320
CRC_POLY_32 == <<60856, 33568>>

\* 0x8C
CRC_POLY_8 == <<0, 140>>

\* size of pkt->data, the compile-time option LWPKT_CFG_MAX_DATA_LEN
LWPKT_CFG_MAX_DATA_LEN == 3

\* (flags & flag) != 0 for a one-bit flag
FlagSet(flags, flag) == (flags \div flag) % 2 = 1

\* c is the record of compile-time modes LWPKT_CFG_*, each 0, 1 or 2;
\* p is the lwpkt_t instance
CHECK_FEATURE_CONFIG_MODE_ENABLED(p, feature, flag) ==
    \/ feature = 1
    \/ (feature = 2 /\ FlagSet(p.flags, flag))

UseAddr(c, p) == CHECK_FEATURE_CONFIG_MODE_ENABLED(p, c.USE_ADDR, LWPKT_FLAG_USE_ADDR)
AddrExtended(c, p) == CHECK_FEATURE_CONFIG_MODE_ENABLED(p, c.ADDR_EXTENDED, LWPKT_FLAG_ADDR_EXTENDED)
UseFlags(c, p) == CHECK_FEATURE_CONFIG_MODE_ENABLED(p, c.USE_FLAGS, LWPKT_FLAG_USE_FLAGS)
UseCmd(c, p) == CHECK_FEATURE_CONFIG_MODE_ENABLED(p, c.USE_CMD, LWPKT_FLAG_USE_CMD)
UseCrc(c, p) == CHECK_FEATURE_CONFIG_MODE_ENABLED(p, c.USE_CRC, LWPKT_FLAG_USE_CRC)
Crc32(c, p) == CHECK_FEATURE_CONFIG_MODE_ENABLED(p, c.CRC32, LWPKT_FLAG_CRC32)

CRC_DATA_LEN(c, p) == IF Crc32(c, p) THEN 4 ELSE 1

\* a value stored in a lwpkt_addr_t: uint32_t when LWPKT_CFG_ADDR_EXTENDED is
\* not 0, uint8_t otherwise
lwpkt_addr_t(c, v) == IF c.ADDR_EXTENDED = 0 THEN <<0, v[2] % 256>> ELSE v

\* a value stored in crcobj->crc: lwpkt.c keeps 32-bit values in it for both
\* CRC widths (prv_crc_init stores 0xFFFFFFFF, prv_crc_calc_one returns uint32_t)
lwpkt_crc_t(v) == v

(***************************************************************************)
(* CRC engine                                                              *)
(***************************************************************************)

\* a turn that shifts and never looks at the bit of the new entry
crc_calc_turn_blind(it, poly) == <<U32Shr(it[1], 1), it[2] \div 2>>

\* one turn of the loop of prv_crc_calc_one on it = <<crc_curr, new_entry>>
crc_calc_turn(it, poly) ==
    LET mix == (it[1][2] + it[2]) % 2
        shifted == U32Shr(it[1], 1)
    IN  <<IF mix > 0 THEN U32Xor(shifted, poly) ELSE shifted, it[2] \div 2>>

RECURSIVE crc_calc_loop(_, _, _)
\* for (j = 0; j < 8; ++j) on it = <<crc_curr, new_entry>>; return crc_curr
crc_calc_loop(it, poly, j) ==
    IF j < 8
    THEN CHOOSE crc_curr \in {crc_calc_loop(nx, poly, j + 1) : nx \in {crc_calc_turn(it, poly)}} : TRUE
    ELSE it[1]

prv_crc_calc_one(crc_curr, new_entry, poly) ==
    crc_calc_loop(<<crc_curr, new_entry>>, poly, 0)

RECURSIVE prv_crc_in(_, _, _, _)
\* crcobj is the value of crcobj->crc, inp the bytes; the result is the new crcobj->crc
prv_crc_in(c, p, crcobj, inp) ==
    After(crcobj,
          IF Len(inp) = 0 THEN crcobj
          ELSE prv_crc_in(c, p,
                   lwpkt_crc_t(prv_crc_calc_one(crcobj, Head(inp),
                       IF Crc32(c, p) THEN CRC_POLY_32 ELSE CRC_POLY_8)),
                   Tail(inp)))

prv_crc_finish(c, p, crcobj) ==
    IF Crc32(c, p) THEN lwpkt_crc_t(U32Xor(crcobj, U32_MAX)) ELSE crcobj

prv_crc_init(c, p) ==
    IF Crc32(c, p) THEN lwpkt_crc_t(U32_MAX) ELSE U32_ZERO

\* ADD_IN_TO_CRC on the accumulator crcobj; compiled to nothing when LWPKT_CFG_USE_CRC is 0
ADD_IN_TO_CRC(c, p, crcobj, inp) ==
    IF c.USE_CRC # 0 /\ UseCrc(c, p) THEN prv_crc_in(c, p, crcobj, inp) ELSE crcobj

\* INIT_CRC: the value m.crc gets; compiled to nothing when LWPKT_CFG_USE_CRC is 0
INIT_CRC(c, p, crcobj) ==
    IF c.USE_CRC # 0 THEN prv_crc_init(c, p) ELSE crcobj

(***************************************************************************)
(* Variable-length (7 bits per byte) encoding                              *)
(***************************************************************************)

RECURSIVE CALC_BYTES_NUM_FOR_LEN(_)
\* the number of bytes the macro adds to num_var for the uint32_t len_var
CALC_BYTES_NUM_FOR_LEN(len_var) ==
    1 + (IF U32Gt0(U32Shr(len_var, 7))
         THEN CALC_BYTES_NUM_FOR_LEN(U32Shr(len_var, 7)) ELSE 0)

RECURSIVE VarEncode(_)
\* the bytes b of the loop  do { b = (v & 0x7F) | (v > 0x7F ? 0x80 : 0); v >>= 7; } while (v > 0)
VarEncode(v) ==
    LET b == (v[2] % 128) + (IF U32Gt7F(v) THEN 128 ELSE 0)
    IN  <<b>> \o (IF U32Gt0(U32Shr(v, 7)) THEN VarEncode(U32Shr(v, 7)) ELSE <<>>)

\* (b & 0x7F) << (7 * index) as a 32-bit value.  A shift count of 32 or more
\* is undefined in C: the build either masks the count to its low 5 bits or
\* yields 0 (c.SHIFT names which).
ShiftIn7(c, b, index) ==
    IF 7 * index < 32 THEN U32ShlByte(b % 128, 7 * index)
    ELSE IF c.SHIFT = "mask" THEN U32ShlByte(b % 128, (7 * index) % 32)
    ELSE U32_ZERO

(***************************************************************************)
(* LwRB ring buffer.  A ring is [buff, size, r, w]: buff the storage        *)
(* (indices 0 .. size-1), r and w the read and write indices.              *)
(***************************************************************************)

BUF_MIN(x, y) == IF x < y THEN x ELSE y

\* the state lwrb_init leaves (the static storage of the callers is zeroed)
lwrb_init(size) ==
    [buff |-> Copied([i \in 0..(size - 1) |-> 0]), size |-> size, r |-> 0, w |-> 0]

\* lwrb_get_free that takes every slot for usable
lwrb_get_free_whole(buff) ==
    LET w == buff.w
        r == buff.r
    IN  IF w = r THEN buff.size
        ELSE IF r > w THEN r - w
        ELSE buff.size - (w - r)

lwrb_get_free(buff) ==
    LET w == buff.w
        r == buff.r
        size == IF w = r THEN buff.size
                ELSE IF r > w THEN r - w
                ELSE buff.size - (w - r)
    IN  size - 1

\* lwrb_get_full that takes the free slots for the stored bytes
lwrb_get_full_swapped(buff) ==
    LET w == buff.w
        r == buff.r
    IN  IF w = r THEN 0
        ELSE IF w > r THEN buff.size - (w - r)
        ELSE r - w

lwrb_get_full(buff) ==
    LET w == buff.w
        r == buff.r
    IN  IF w = r THEN 0
        ELSE IF w > r THEN w - r
        ELSE buff.size - (r - w)

\* lwrb_write that writes all of data or nothing
lwrb_write_whole(buff, data) ==
    LET buff_w_ptr == buff.w
        tocopy == BUF_MIN(buff.size - buff_w_ptr, Len(data))
        rest == Len(data) - tocopy
        w1 == IF rest > 0 THEN rest ELSE buff_w_ptr + tocopy
    IN  IF Len(data) = 0 \/ lwrb_get_free(buff) < Len(data)
        THEN [rb |-> buff, n |-> 0]
        ELSE [rb |-> [buff EXCEPT
                        !.buff = Copied([i \in 0..(buff.size - 1) |->
                                    IF i >= buff_w_ptr /\ i < buff_w_ptr + tocopy
                                    THEN data[i - buff_w_ptr + 1]
                                    ELSE IF i < rest THEN data[tocopy + i + 1]
                                    ELSE buff.buff[i]]),
                        !.w = IF w1 >= buff.size THEN 0 ELSE w1],
              n |-> Len(data)]

\* lwrb_write(buff, data, btw) with btw = Len(data): [rb, n], the ring after
\* the call and the number of bytes written
lwrb_write(buff, data) ==
    LET free == lwrb_get_free(buff)
        btw == BUF_MIN(free, Len(data))
        buff_w_ptr == buff.w
        tocopy == BUF_MIN(buff.size - buff_w_ptr, btw)
        rest == btw - tocopy
        copied == Copied([i \in 0..(buff.size - 1) |->
                     IF i >= buff_w_ptr /\ i < buff_w_ptr + tocopy
                     THEN data[i - buff_w_ptr + 1]
                     ELSE IF i < rest THEN data[tocopy + i + 1]
                     ELSE buff.buff[i]])
        w1 == IF rest > 0 THEN rest ELSE buff_w_ptr + tocopy
        w2 == IF w1 >= buff.size THEN 0 ELSE w1
    IN  IF Len(data) = 0 \/ btw = 0
        THEN [rb |-> buff, n |-> 0]
        ELSE [rb |-> [buff EXCEPT !.buff = copied, !.w = w2], n |-> tocopy + rest]

\* lwrb_read that copies the overflow part from the second byte of the storage
lwrb_read_off(buff, btr0) ==
    LET full == lwrb_get_full(buff)
        btr == BUF_MIN(full, btr0)
        buff_r_ptr == buff.r
        tocopy == BUF_MIN(buff.size - buff_r_ptr, btr)
        rest == btr - tocopy
        r1 == IF rest > 0 THEN rest ELSE buff_r_ptr + tocopy
    IN  IF btr0 = 0 \/ btr = 0
        THEN [rb |-> buff, data |-> <<>>]
        ELSE [rb |-> [buff EXCEPT !.r = IF r1 >= buff.size THEN 0 ELSE r1],
              data |-> Copied([i \in 1..btr |->
                          IF i <= tocopy THEN buff.buff[buff_r_ptr + i - 1]
                          ELSE buff.buff[i - tocopy]])]

\* lwrb_read(buff, data, btr): [rb, data], the ring after the call and the
\* bytes copied out (their number is the return value)
lwrb_read(buff, btr0) ==
    LET full == lwrb_get_full(buff)
        btr == BUF_MIN(full, btr0)
        buff_r_ptr == buff.r
        tocopy == BUF_MIN(buff.size - buff_r_ptr, btr)
        rest == btr - tocopy
        d == Copied([i \in 1..btr |->
                IF i <= tocopy THEN buff.buff[buff_r_ptr + i - 1]
                ELSE buff.buff[i - tocopy - 1]])
        r1 == IF rest > 0 THEN rest ELSE buff_r_ptr + tocopy
        r2 == IF r1 >= buff.size THEN 0 ELSE r1
    IN  IF btr0 = 0 \/ btr = 0
        THEN [rb |-> buff, data |-> <<>>]
        ELSE [rb |-> [buff EXCEPT !.r = r2], data |-> d]

\* lwrb_peek that peeks at the read index whatever skip_count is
lwrb_peek_noskip(buff, skip_count, btp0) ==
    LET full0 == lwrb_get_full(buff)
        r == buff.r
        btp == BUF_MIN(full0 - skip_count, btp0)
        tocopy == BUF_MIN(buff.size - r, btp)
    IN  IF btp0 = 0 \/ skip_count >= full0 \/ btp = 0
        THEN <<>>
        ELSE Copied([i \in 1..btp |->
                IF i <= tocopy THEN buff.buff[r + i - 1]
                ELSE buff.buff[i - tocopy - 1]])

\* lwrb_peek(buff, skip_count, data, btp): the bytes copied out (their number
\* is the return value); the ring is not written
lwrb_peek(buff, skip_count, btp0) ==
    LET full0 == lwrb_get_full(buff)
        r0 == buff.r + skip_count
        full == full0 - skip_count
        r == IF r0 >= buff.size THEN r0 - buff.size ELSE r0
        btp == BUF_MIN(full, btp0)
        tocopy == BUF_MIN(buff.size - r, btp)
    IN  IF btp0 = 0 \/ skip_count >= full0 \/ btp = 0
        THEN <<>>
        ELSE Copied([i \in 1..btp |->
                IF i <= tocopy THEN buff.buff[r + i - 1]
                ELSE buff.buff[i - tocopy - 1]])

\* lwrb_skip that does not cut len to the number of bytes stored
lwrb_skip_uncut(buff, len0) ==
    LET r == buff.r + len0
    IN  IF len0 = 0 THEN [rb |-> buff, n |-> 0]
        ELSE [rb |-> [buff EXCEPT !.r = IF r >= buff.size THEN r - buff.size ELSE r],
              n |-> len0]

\* lwrb_skip(buff, len): [rb, n]
lwrb_skip(buff, len0) ==
    LET full == lwrb_get_full(buff)
        len == BUF_MIN(len0, full)
        r == buff.r + len
    IN  IF len0 = 0 THEN [rb |-> buff, n |-> 0]
        ELSE [rb |-> [buff EXCEPT !.r = IF r >= buff.size THEN r - buff.size ELSE r],
              n |-> len]

\* lwrb_advance(buff, len): [rb, n]
lwrb_advance(buff, len0) ==
    LET free == lwrb_get_free(buff)
        len == BUF_MIN(len0, free)
        w == buff.w + len
    IN  IF len0 = 0 THEN [rb |-> buff, n |-> 0]
        ELSE [rb |-> [buff EXCEPT !.w = IF w >= buff.size THEN w - buff.size ELSE w],
              n |-> len]

lwrb_reset(buff) == [buff EXCEPT !.w = 0, !.r = 0]

\* lwrb_find(buff, bts, len, start_offset, found_idx) with len = Len(needle):
\* [found, found_idx]; the ring is not written. The loop tries the offsets
\* skip_x from start_offset while skip_x < full - start_offset - len.
lwrb_find(buff, needle, start_offset) ==
    LET len == Len(needle)
        full == lwrb_get_full(buff)
        r0(skip_x) == IF buff.r + skip_x >= buff.size
                      THEN buff.r + skip_x - buff.size
                      ELSE buff.r + skip_x
        r(skip_x, i) == IF r0(skip_x) + i >= buff.size
                        THEN r0(skip_x) + i - buff.size
                        ELSE r0(skip_x) + i
        hits == {skip_x \in start_offset..(full - start_offset - len - 1) :
                    \A i \in 0..(len - 1) : buff.buff[r(skip_x, i)] = needle[i + 1]}
    IN  IF len = 0 \/ full < len + start_offset \/ hits = {}
        THEN [found |-> 0, found_idx |-> 0]
        ELSE [found |-> 1, found_idx |-> CHOOSE k \in hits : \A j \in hits : k <= j]

(***************************************************************************)
(* LwPKT instance.  p = [addr, flags, data, last_rx_time, m]; the rings it *)
(* points to (tx_rb, rx_rb) are passed beside it.                          *)
(***************************************************************************)

\* the parser state m after LWPKT_RESET: all zero, state = LWPKT_STATE_START
M_RESET ==
    [state |-> "START", crc |-> U32_ZERO, crc_data |-> U32_ZERO,
     from |-> U32_ZERO, to |-> U32_ZERO, flags |-> U32_ZERO, cmd |-> 0,
     len |-> U32_ZERO, index |-> 0]

\* a reset that only rewinds the parser and keeps the fields
LWPKT_REWIND(p) == [p EXCEPT !.m.state = "START", !.m.index = 0]

\* a reset that clears the whole instance
LWPKT_RESET_whole(p) ==
    [p EXCEPT !.m = M_RESET, !.addr = U32_ZERO, !.flags = 0, !.last_rx_time = U32_ZERO,
              !.data = [i \in DOMAIN p.data |-> 0]]

LWPKT_RESET(p) == [p EXCEPT !.m = M_RESET]

\* a change of state that keeps the index
LWPKT_SET_STATE_keep(p, s) == [p EXCEPT !.m.state = s]

LWPKT_SET_STATE(p, s) == [p EXCEPT !.m.state = s, !.m.index = 0]

\* the instance lwpkt_init leaves
lwpkt_init ==
    [addr |-> U32_ZERO, flags |-> 255,
     data |-> Copied([i \in 0..(LWPKT_CFG_MAX_DATA_LEN - 1) |-> 0]),
     last_rx_time |-> U32_ZERO, m |-> M_RESET]

lwpkt_set_addr(c, p, addr) == [p EXCEPT !.addr = lwpkt_addr_t(c, addr)]

\* pkt->flags |= flag when enable, pkt->flags &= ~flag otherwise
SetFlag(p, flag, enable) ==
    [p EXCEPT !.flags =
        IF enable
        THEN (IF FlagSet(p.flags, flag) THEN p.flags ELSE p.flags + flag)
        ELSE (IF FlagSet(p.flags, flag) THEN p.flags - flag ELSE p.flags)]

lwpkt_set_crc_enabled(p, enable) == SetFlag(p, LWPKT_FLAG_USE_CRC, enable)
lwpkt_set_crc32_enabled(p, enable) == SetFlag(p, LWPKT_FLAG_CRC32, enable)
lwpkt_set_addr_enabled(p, enable) == SetFlag(p, LWPKT_FLAG_USE_ADDR, enable)
lwpkt_set_addr_extended_enabled(p, enable) == SetFlag(p, LWPKT_FLAG_ADDR_EXTENDED, enable)
lwpkt_set_cmd_enabled(p, enable) == SetFlag(p, LWPKT_FLAG_USE_CMD, enable)
lwpkt_set_flags_enabled(p, enable) == SetFlag(p, LWPKT_FLAG_USE_FLAGS, enable)

lwpkt_reset(p) == LWPKT_RESET(p)

\* a switch that goes to Data after the length whatever the length is
NextRxStateAlwaysData(c, p) ==
    LET afterFlags == IF UseCmd(c, p) THEN "CMD" ELSE "LEN"
        afterTo    == IF UseFlags(c, p) THEN "FLAGS" ELSE afterFlags
        afterStart == IF UseAddr(c, p) THEN "FROM" ELSE afterTo
        afterData  == IF UseCrc(c, p) THEN "CRC" ELSE "STOP"
        s == p.m.state
    IN  CASE s = "START" -> afterStart
          [] s = "TO"    -> afterTo
          [] s = "FLAGS" -> afterFlags
          [] s = "CMD"   -> "LEN"
          [] s = "LEN"   -> "DATA"
          [] s = "DATA"  -> afterData
          [] s = "CRC"   -> "STOP"
          [] s = "STOP"  -> "START"
          [] s = "FROM"  -> "TO"
          [] OTHER       -> "END"

\* the state the switch of prv_go_to_next_packet_rx_state selects, with its
\* fall-through chains; "END" when the state has no case
NextRxState(c, p) ==
    LET afterFlags == IF UseCmd(c, p) THEN "CMD" ELSE "LEN"
        afterTo    == IF UseFlags(c, p) THEN "FLAGS" ELSE afterFlags
        afterStart == IF UseAddr(c, p) THEN "FROM" ELSE afterTo
        afterData  == IF UseCrc(c, p) THEN "CRC" ELSE "STOP"
        afterLen   == IF U32Gt0(p.m.len) THEN "DATA" ELSE afterData
        s == p.m.state
    IN  CASE s = "START" -> afterStart
          [] s = "TO"    -> afterTo
          [] s = "FLAGS" -> afterFlags
          [] s = "CMD"   -> "LEN"
          [] s = "LEN"   -> afterLen
          [] s = "DATA"  -> afterData
          [] s = "CRC"   -> "STOP"
          [] s = "STOP"  -> "START"
          [] s = "FROM"  -> "TO"
          [] OTHER       -> "END"

prv_go_to_next_packet_rx_state(c, p) ==
    LET next_state == NextRxState(c, p)
    IN  IF next_state # "END" THEN LWPKT_SET_STATE(p, next_state) ELSE p

\* the test that ends the From field (lwpkt.c line 389): it reads the
\* compile-time mode LWPKT_CFG_ADDR_EXTENDED, not the instance flag
FromFieldDone(c, p, b) ==
    \/ c.ADDR_EXTENDED = 0
    \/ (c.ADDR_EXTENDED # 0 /\ b < 128)

\* the test that ends the To field (lwpkt.c line 405)
ToFieldDone(c, p, b) == ~AddrExtended(c, p) \/ b < 128

\* a guard of the payload store that is off by one
DataIndexFitsIncl(p) == p.m.index <= LWPKT_CFG_MAX_DATA_LEN

\* the guard of the payload store (lwpkt.c line 441)
DataIndexFits(p) == p.m.index < LWPKT_CFG_MAX_DATA_LEN

\* a start test that takes the stop byte for a start byte too
IsStartOrStopByte(b) == b = LWPKT_START_BYTE \/ b = LWPKT_STOP_BYTE

\* the test of the Start state (lwpkt.c line 371)
IsStartByte(b) == b = LWPKT_START_BYTE

\* pkt->m.index == pkt->m.len, index a small size_t
IndexIsLen(p) == p.m.len[1] = 0 /\ p.m.len[2] = p.m.index

\* one turn of the switch of lwpkt_read on the byte b.  The result is
\* [p, res, stored]: res = "NONE" when the switch ends in break, the verdict
\* when it ends in goto retpre; stored is the set of indices of pkt->data
\* the byte was stored at.
lwpkt_read_byte(c, p, b) ==
    LET s == p.m.state
        go(q) == [p |-> q, res |-> "NONE", stored |-> {}]
        crcd(q) == [q EXCEPT !.m.crc = ADD_IN_TO_CRC(c, q, q.m.crc, <<b>>)]
    IN
    CASE s = "START" ->
            IF IsStartByte(b)
            THEN LET q1 == LWPKT_RESET(p)
                     q2 == [q1 EXCEPT !.m.crc = INIT_CRC(c, q1, q1.m.crc)]
                 IN  go(prv_go_to_next_packet_rx_state(c, q2))
            ELSE go(p)
      [] s = "FROM" /\ c.USE_ADDR # 0 ->
            LET q1 == crcd(p)
                q2 == IF AddrExtended(c, q1)
                      THEN [q1 EXCEPT
                              !.m.from = lwpkt_addr_t(c, U32Or(q1.m.from, ShiftIn7(c, b, q1.m.index))),
                              !.m.index = q1.m.index + 1]
                      ELSE [q1 EXCEPT !.m.from = lwpkt_addr_t(c, U32(b))]
            IN  IF FromFieldDone(c, q2, b)
                THEN go(prv_go_to_next_packet_rx_state(c, q2))
                ELSE go(q2)
      [] s = "TO" /\ c.USE_ADDR # 0 ->
            LET q1 == crcd(p)
                q2 == IF AddrExtended(c, q1)
                      THEN [q1 EXCEPT
                              !.m.to = lwpkt_addr_t(c, U32Or(q1.m.to, ShiftIn7(c, b, q1.m.index))),
                              !.m.index = q1.m.index + 1]
                      ELSE [q1 EXCEPT !.m.to = lwpkt_addr_t(c, U32(b))]
            IN  IF ToFieldDone(c, q2, b)
                THEN go(prv_go_to_next_packet_rx_state(c, q2))
                ELSE go(q2)
      [] s = "FLAGS" /\ c.USE_FLAGS # 0 ->
            LET q1 == [p EXCEPT
                         !.m.flags = U32Or(p.m.flags, ShiftIn7(c, b, p.m.index)),
                         !.m.index = p.m.index + 1]
                q2 == crcd(q1)
            IN  IF b < 128
                THEN go(prv_go_to_next_packet_rx_state(c, q2))
                ELSE go(q2)
      [] s = "CMD" /\ c.USE_CMD # 0 ->
            go(prv_go_to_next_packet_rx_state(c, crcd([p EXCEPT !.m.cmd = b])))
      [] s = "LEN" ->
            LET q1 == [p EXCEPT
                         !.m.len = U32Or(p.m.len, ShiftIn7(c, b, p.m.index)),
                         !.m.index = p.m.index + 1]
                q2 == crcd(q1)
            IN  IF b < 128
                THEN go(prv_go_to_next_packet_rx_state(c, q2))
                ELSE go(q2)
      [] s = "DATA" ->
            IF DataIndexFits(p)
            THEN LET q1 == [p EXCEPT !.data[p.m.index] = b,
                                     !.m.index = p.m.index + 1]
                     q2 == crcd(q1)
                 IN  [p |-> IF IndexIsLen(q2)
                            THEN prv_go_to_next_packet_rx_state(c, q2) ELSE q2,
                      res |-> "NONE", stored |-> {p.m.index}]
            ELSE [p |-> LWPKT_RESET(p), res |-> "ERRMEM", stored |-> {}]
      [] s = "CRC" /\ c.USE_CRC # 0 ->
            LET q1 == IF p.m.index < CRC_DATA_LEN(c, p)
                      THEN [p EXCEPT
                              !.m.crc_data = U32Or(p.m.crc_data, U32ShlByte(b, 8 * p.m.index)),
                              !.m.index = p.m.index + 1]
                      ELSE p
            IN  IF q1.m.index = CRC_DATA_LEN(c, q1)
                THEN LET q2 == [q1 EXCEPT !.m.crc = prv_crc_finish(c, q1, q1.m.crc)]
                     IN  IF q2.m.crc = q2.m.crc_data
                         THEN go(LWPKT_SET_STATE(q2, "STOP"))
                         ELSE [p |-> LWPKT_RESET(q2), res |-> "ERRCRC", stored |-> {}]
                ELSE go(q1)
      [] s = "STOP" ->
            [p |-> prv_go_to_next_packet_rx_state(c, p),
             res |-> IF b = LWPKT_STOP_BYTE THEN "VALID" ELSE "ERRSTOP",
             stored |-> {}]
      [] OTHER ->
            [p |-> LWPKT_RESET(p), res |-> "ERR", stored |-> {}]

RECURSIVE lwpkt_read_loop(_, _, _, _, _)

\* the rest of a turn of the while loop, t being what the switch did with
\* the byte: goto retpre with the verdict, or the next turn
lwpkt_read_turn(c, rx_rb, stored, t) ==
    IF t.res # "NONE"
    THEN [p |-> t.p, rx_rb |-> rx_rb, e |-> 1,
          stored |-> stored \cup t.stored, res |-> t.res]
    ELSE After(stored, lwpkt_read_loop(c, t.p, rx_rb, 1, stored \cup t.stored))

\* the while loop of lwpkt_read, from a turn on: e and stored as so far
lwpkt_read_loop(c, p, rx_rb, e, stored) ==
    LET rd == lwrb_read(rx_rb, 1)
    IN  IF Len(rd.data) # 1
        THEN [p |-> p, rx_rb |-> rd.rb, e |-> e, stored |-> stored,
              res |-> IF p.m.state = "START" THEN "WAITDATA" ELSE "INPROG"]
        ELSE lwpkt_read_turn(c, rd.rb, stored, lwpkt_read_byte(c, p, rd.data[1]))

\* an end of lwpkt_read that keeps the lwpktOK res is initialised with when
\* the call has read no byte
lwpkt_read_ret_initial(lp) ==
    [p |-> lp.p, rx_rb |-> lp.rx_rb, res |-> IF lp.e = 0 THEN "OK" ELSE lp.res,
     stored |-> lp.stored,
     evts |-> <<"PRE_READ", "POST_READ">> \o (IF lp.e = 1 THEN <<"READ">> ELSE <<>>)]

\* the end of lwpkt_read (retpre, retpost): lp is the state the loop left
lwpkt_read_ret(lp) ==
    [p |-> lp.p, rx_rb |-> lp.rx_rb, res |-> lp.res, stored |-> lp.stored,
     evts |-> <<"PRE_READ", "POST_READ">> \o (IF lp.e = 1 THEN <<"READ">> ELSE <<>>)]

\* a reader that starts every call at the first byte of the field it is in
\* (it forgets how far into the field the previous call came)
lwpkt_read_restart(c, p, rx_rb) ==
    lwpkt_read_ret(lwpkt_read_loop(c, LWPKT_SET_STATE(p, p.m.state), rx_rb, 0, {}))

\* lwpkt_read on a valid instance: [p, rx_rb, res, stored, evts]
lwpkt_read(c, p, rx_rb) ==
    lwpkt_read_ret(lwpkt_read_loop(c, p, rx_rb, 0, {}))

(***************************************************************************)
(* lwpkt_process                                                           *)
(***************************************************************************)

LWPKT_CFG_PROCESS_INPROG_TIMEOUT == 100

\* the fields the accessors lwpkt_get_* return, and the payload
Fields(p) ==
    [from |-> p.m.from, to |-> p.m.to, flags |-> p.m.flags, cmd |-> p.m.cmd,
     len |-> p.m.len,
     data |-> Copied([i \in 1..BUF_MIN(p.m.len[2], LWPKT_CFG_MAX_DATA_LEN) |-> p.data[i - 1]])]

\* a timeout test that needs more than the timeout to have gone by
TimedOutLate(time, last_rx_time) ==
    U32Ge(U32Sub(time, last_rx_time), LWPKT_CFG_PROCESS_INPROG_TIMEOUT + 1)

\* a timeout test that compares the counter with last_rx_time + timeout
\* without reducing the sum modulo 2^32
TimedOutNoWrap(time, last_rx_time) ==
    LET lo == last_rx_time[2] + LWPKT_CFG_PROCESS_INPROG_TIMEOUT
        hi == last_rx_time[1] + (lo \div 65536)
    IN  time[1] > hi \/ (time[1] = hi /\ time[2] >= lo % 65536)

\* (time - pkt->last_rx_time) >= LWPKT_CFG_PROCESS_INPROG_TIMEOUT (line 522)
TimedOut(time, last_rx_time) ==
    U32Ge(U32Sub(time, last_rx_time), LWPKT_CFG_PROCESS_INPROG_TIMEOUT)

\* lwpkt_process that sends the events before it writes last_rx_time
lwpkt_process_evt_first(rd, time) ==
    CASE rd.res = "VALID" ->
            [p |-> [rd.p EXCEPT !.last_rx_time = time], rx_rb |-> rd.rx_rb,
             res |-> rd.res, stored |-> rd.stored,
             evts |-> rd.evts \o <<"PKT">>, cb |-> <<Fields(rd.p)>>,
             cb_rx_time |-> <<rd.p.last_rx_time>>]
      [] OTHER ->
            [p |-> [rd.p EXCEPT !.last_rx_time = time], rx_rb |-> rd.rx_rb,
             res |-> rd.res, stored |-> rd.stored, evts |-> rd.evts, cb |-> <<>>,
             cb_rx_time |-> <<>>]

\* lwpkt_process after its lwpkt_read call returned rd.  cb is what the event
\* function finds with the accessors when it is called with LWPKT_EVT_PKT,
\* and cb_rx_time the last_rx_time of the instance at that call.
lwpkt_process_ret(rd, time) ==
    CASE rd.res = "VALID" ->
            [p |-> [rd.p EXCEPT !.last_rx_time = time], rx_rb |-> rd.rx_rb,
             res |-> rd.res, stored |-> rd.stored,
             evts |-> rd.evts \o <<"PKT">>, cb |-> <<Fields(rd.p)>>,
             cb_rx_time |-> <<time>>]
      [] rd.res = "INPROG" /\ TimedOut(time, rd.p.last_rx_time) ->
            [p |-> [lwpkt_reset(rd.p) EXCEPT !.last_rx_time = time], rx_rb |-> rd.rx_rb,
             res |-> rd.res, stored |-> rd.stored,
             evts |-> rd.evts \o <<"TIMEOUT">>, cb |-> <<>>, cb_rx_time |-> <<>>]
      [] rd.res = "INPROG" /\ ~TimedOut(time, rd.p.last_rx_time) ->
            [p |-> rd.p, rx_rb |-> rd.rx_rb, res |-> rd.res, stored |-> rd.stored,
             evts |-> rd.evts, cb |-> <<>>, cb_rx_time |-> <<>>]
      [] OTHER ->
            [p |-> [rd.p EXCEPT !.last_rx_time = time], rx_rb |-> rd.rx_rb,
             res |-> rd.res, stored |-> rd.stored, evts |-> rd.evts, cb |-> <<>>,
             cb_rx_time |-> <<>>]

\* lwpkt_process(pkt, time) on a valid instance:
\* [p, rx_rb, res, stored, evts, cb, cb_rx_time]
lwpkt_process(c, p, rx_rb, time) == lwpkt_process_ret(lwpkt_read(c, p, rx_rb), time)

(***************************************************************************)
(* Encoder                                                                 *)
(***************************************************************************)

\* a byte sequence as one lwrb_write call per byte
Singles(bytes) == [i \in 1..Len(bytes) |-> <<bytes[i]>>]

RECURSIVE Flatten(_)
Flatten(calls) == IF Len(calls) = 0 THEN <<>> ELSE Head(calls) \o Flatten(Tail(calls))

\* a min_mem that leaves out the payload bytes
WriteMinMemNoData(c, p, to, flags, len) ==
    2
    + (IF c.USE_ADDR # 0 /\ UseAddr(c, p)
       THEN (IF AddrExtended(c, p)
             THEN CALC_BYTES_NUM_FOR_LEN(p.addr) + CALC_BYTES_NUM_FOR_LEN(lwpkt_addr_t(c, to))
             ELSE 2)
       ELSE 0)
    + (IF c.USE_FLAGS # 0 /\ UseFlags(c, p) THEN CALC_BYTES_NUM_FOR_LEN(flags) ELSE 0)
    + (IF UseCmd(c, p) THEN 1 ELSE 0)
    + CALC_BYTES_NUM_FOR_LEN(U32(len))
    + (IF UseCrc(c, p) THEN CRC_DATA_LEN(c, p) ELSE 0)

\* a min_mem that counts one byte of CRC whatever its width
WriteMinMemCrc8(c, p, to, flags, len) ==
    2
    + (IF c.USE_ADDR # 0 /\ UseAddr(c, p)
       THEN (IF AddrExtended(c, p)
             THEN CALC_BYTES_NUM_FOR_LEN(p.addr) + CALC_BYTES_NUM_FOR_LEN(lwpkt_addr_t(c, to))
             ELSE 2)
       ELSE 0)
    + (IF c.USE_FLAGS # 0 /\ UseFlags(c, p) THEN CALC_BYTES_NUM_FOR_LEN(flags) ELSE 0)
    + (IF UseCmd(c, p) THEN 1 ELSE 0)
    + CALC_BYTES_NUM_FOR_LEN(U32(len)) + len
    + (IF UseCrc(c, p) THEN 1 ELSE 0)

\* min_mem of lwpkt_write (lines 572-603)
WriteMinMem(c, p, to, flags, len) ==
    2
    + (IF c.USE_ADDR # 0 /\ UseAddr(c, p)
       THEN (IF AddrExtended(c, p)
             THEN CALC_BYTES_NUM_FOR_LEN(p.addr) + CALC_BYTES_NUM_FOR_LEN(lwpkt_addr_t(c, to))
             ELSE 2)
       ELSE 0)
    + (IF c.USE_FLAGS # 0 /\ UseFlags(c, p) THEN CALC_BYTES_NUM_FOR_LEN(flags) ELSE 0)
    + (IF UseCmd(c, p) THEN 1 ELSE 0)
    + CALC_BYTES_NUM_FOR_LEN(U32(len)) + len
    + (IF UseCrc(c, p) THEN CRC_DATA_LEN(c, p) ELSE 0)

\* the lwrb_write calls of lwpkt_write that go through WRITE_WITH_CRC, in
\* order (lines 622-678): each element is the bytes of one call.  &pkt->addr
\* and &to with length 1 are the low bytes (little-endian storage).
WriteCoveredCalls(c, p, to, flags, cmd, data) ==
    (IF c.USE_ADDR # 0 /\ UseAddr(c, p)
     THEN (IF c.ADDR_EXTENDED # 0 /\ AddrExtended(c, p)
           THEN Singles(VarEncode(p.addr)) \o Singles(VarEncode(lwpkt_addr_t(c, to)))
           ELSE << <<p.addr[2] % 256>>, <<to[2] % 256>> >>)
     ELSE <<>>)
    \o (IF c.USE_FLAGS # 0 /\ UseFlags(c, p) THEN Singles(VarEncode(flags)) ELSE <<>>)
    \o (IF c.USE_CMD # 0 /\ UseCmd(c, p) THEN << <<cmd>> >> ELSE <<>>)
    \o Singles(VarEncode(U32(Len(data))))
    \o (IF Len(data) > 0 THEN <<data>> ELSE <<>>)

RECURSIVE WriteCrcOver(_, _, _, _)
\* the local crc of lwpkt_write after the WRITE_WITH_CRC calls
WriteCrcOver(c, p, crc, calls) ==
    IF Len(calls) = 0 THEN crc
    ELSE LET added == ADD_IN_TO_CRC(c, p, crc, Head(calls))
         IN  After(added, WriteCrcOver(c, p, added, Tail(calls)))

RECURSIVE CrcBytesHighFirst(_, _)
\* the CRC bytes written high byte first
CrcBytesHighFirst(crc_data, n) ==
    IF n = 0 THEN <<>>
    ELSE CrcBytesHighFirst(U32Shr(crc_data, 8), n - 1) \o << <<crc_data[2] % 256>> >>

RECURSIVE CrcBytes(_, _)
\* the loop of lines 684-688: n bytes of crc_data, low byte first
CrcBytes(crc_data, n) ==
    IF n = 0 THEN <<>>
    ELSE << <<crc_data[2] % 256>> >> \o CrcBytes(U32Shr(crc_data, 8), n - 1)

\* every lwrb_write call of lwpkt_write after the memory check, in order
lwpkt_write_calls(c, p, to, flags, cmd, data) ==
    LET covered == WriteCoveredCalls(c, p, to, flags, cmd, data)
        crc == WriteCrcOver(c, p, prv_crc_init(c, p), covered)
    IN  << <<LWPKT_START_BYTE>> >>
        \o covered
        \o (IF c.USE_CRC # 0 /\ UseCrc(c, p)
            THEN CrcBytes(prv_crc_finish(c, p, crc), CRC_DATA_LEN(c, p))
            ELSE <<>>)
        \o << <<LWPKT_STOP_BYTE>> >>

\* a memory check that lets a frame one byte too long pass
WriteHasMemOffByOne(c, p, tx_rb, to, flags, len) ==
    ~(lwrb_get_free(tx_rb) + 1 < WriteMinMem(c, p, to, flags, len))

\* the memory check of lwpkt_write (line 606)
WriteHasMem(c, p, tx_rb, to, flags, len) ==
    ~(lwrb_get_free(tx_rb) < WriteMinMem(c, p, to, flags, len))

RECURSIVE WriteAll(_, _, _)
\* the ring after the lwrb_write calls, and the bytes they stored
WriteAll(tx_rb, calls, accepted) ==
    IF Len(calls) = 0 THEN [rb |-> tx_rb, accepted |-> accepted]
    ELSE LET wr == lwrb_write(tx_rb, Head(calls))
             stored == accepted \o SubSeq(Head(calls), 1, wr.n)
         IN  After(<<wr, stored>>, WriteAll(wr.rb, Tail(calls), stored))

\* lwpkt_write that returns at its memory check instead of going to fast_return
lwpkt_write_early_return(c, p, tx_rb, to, flags, cmd, data) ==
    IF ~WriteHasMem(c, p, tx_rb, to, flags, Len(data))
    THEN [res |-> "ERRMEM", tx_rb |-> tx_rb, attempted |-> <<>>, accepted |-> <<>>,
          evts |-> <<"PRE_WRITE">>]
    ELSE LET calls == lwpkt_write_calls(c, p, to, flags, cmd, data)
             done == WriteAll(tx_rb, calls, <<>>)
         IN  [res |-> "OK", tx_rb |-> done.rb, attempted |-> Flatten(calls),
              accepted |-> done.accepted,
              evts |-> <<"PRE_WRITE", "POST_WRITE", "WRITE">>]

\* lwpkt_write on a valid instance: [res, tx_rb, evts, attempted, accepted]
lwpkt_write(c, p, tx_rb, to, flags, cmd, data) ==
    IF ~WriteHasMem(c, p, tx_rb, to, flags, Len(data))
    THEN [res |-> "ERRMEM", tx_rb |-> tx_rb, attempted |-> <<>>, accepted |-> <<>>,
          evts |-> <<"PRE_WRITE", "POST_WRITE">>]
    ELSE LET calls == lwpkt_write_calls(c, p, to, flags, cmd, data)
             done == WriteAll(tx_rb, calls, <<>>)
         IN  [res |-> "OK", tx_rb |-> done.rb, attempted |-> Flatten(calls),
              accepted |-> done.accepted,
              evts |-> <<"PRE_WRITE", "POST_WRITE", "WRITE">>]

(***************************************************************************)
(* The program as a state machine                                          *)
(***************************************************************************)

VARIABLES
    cfg,    \* the compile-time modes LWPKT_CFG_* of the build
    pkt,    \* the lwpkt_t instance
    tx_rb,  \* the ring pkt->tx_rb points to
    rx_rb,  \* the ring pkt->rx_rb points to
    pc,     \* position of the calling program
    last,   \* the last call: its name, return value, events sent, data[] indices stored
    msg,    \* the arguments of the last lwpkt_write, with the own address at the call
    input,  \* the byte stream the peer sends
    fed,    \* how many bytes of input have been written to the RX ring
    log,    \* the terminal verdicts lwpkt_read returned so far, with the fields read back
    sched,  \* TRUE while every chunk so far was followed by exactly one lwpkt_read
    scen,   \* how the peer made input: the prefix, the kind of frame, a second frame;
            \* and the number of setter and reset calls made while it came in
    enc,    \* the lwpkt_write call in progress: its pending lwrb_write calls, the
            \* bytes it tried and managed to store, the TX ring before the call,
            \* the bytes a consumer took meanwhile, the read index lwrb_write loaded
    clock,  \* the millisecond counter the program passes to lwpkt_process: its
            \* value t0 at construction, the milliseconds now gone by since, and
            \* the number of times the program has waited
    thr     \* two threads on the TX ring: what the lwrb_write of the producer and
            \* the lwrb_read of the consumer hold in their local variables

vars == <<cfg, pkt, tx_rb, rx_rb, pc, last, msg, input, fed, log, sched, scen, enc, clock,
          thr>>

\* sizes of the two ring buffers (the number of usable bytes is one less)
TX_SIZE == 24
RX_SIZE == 24

NoCall == [op |-> "none", res |-> "OK", evts |-> <<>>, stored |-> {}]
NoMsg == [addr |-> U32_ZERO, to |-> U32_ZERO, flags |-> U32_ZERO, cmd |-> 0, data |-> <<>>]
NoScen == [g |-> <<>>, kind |-> "none", two |-> FALSE, next |-> <<>>, calls |-> 0]
NoEnc ==
    [calls |-> <<>>, attempted |-> <<>>, accepted |-> <<>>, before |-> lwrb_init(1),
     drained |-> <<>>, r |-> 0]
NoClock == [t0 |-> U32_ZERO, now |-> 0, waits |-> 0]

\* no call of the ring in progress in either thread
NoThr ==
    [mem |-> "sc", snap |-> <<>>,
     p |-> [at |-> "idle", src |-> <<>>, free |-> 0, btw |-> 0, w |-> 0, k |-> 0],
     c |-> [at |-> "idle", full |-> 0, btr |-> 0, r |-> 0, k |-> 0, d |-> <<>>]]

\* builds with every feature switchable at run time (the build of the test),
\* with the default options of lwpkt_opt.h, and with every feature fixed on
CfgDynamic ==
    [USE_ADDR |-> 2, ADDR_EXTENDED |-> 2, USE_FLAGS |-> 2, USE_CMD |-> 2,
     USE_CRC |-> 2, CRC32 |-> 2, SHIFT |-> "mask"]
CfgDefault ==
    [USE_ADDR |-> 1, ADDR_EXTENDED |-> 0, USE_FLAGS |-> 0, USE_CMD |-> 1,
     USE_CRC |-> 1, CRC32 |-> 0, SHIFT |-> "mask"]
CfgStatic ==
    [USE_ADDR |-> 1, ADDR_EXTENDED |-> 1, USE_FLAGS |-> 1, USE_CMD |-> 1,
     USE_CRC |-> 1, CRC32 |-> 1, SHIFT |-> "mask"]

\* the state after lwrb_init of both rings and lwpkt_init (test_lwpkt, lines 139-141)
Constructed(c) ==
    /\ cfg = c
    /\ pkt = lwpkt_init
    /\ tx_rb = lwrb_init(TX_SIZE)
    /\ rx_rb = lwrb_init(RX_SIZE)
    /\ last = NoCall
    /\ msg = NoMsg
    /\ input = <<>>
    /\ fed = 0
    /\ log = <<>>
    /\ sched = TRUE
    /\ scen = NoScen
    /\ enc = NoEnc
    /\ clock = NoClock
    /\ thr = NoThr

(***************************************************************************)
(* The setters, as the calling program may use them                        *)
(***************************************************************************)

SetAddr(addr) ==
    /\ cfg.USE_ADDR # 0
    /\ pkt' = lwpkt_set_addr(cfg, pkt, addr)
    /\ last' = [NoCall EXCEPT !.op = "set"]

SetAddrEnabled(enable) ==
    /\ cfg.USE_ADDR = 2
    /\ pkt' = lwpkt_set_addr_enabled(pkt, enable)
    /\ last' = [NoCall EXCEPT !.op = "set"]

SetAddrExtendedEnabled(enable) ==
    /\ cfg.ADDR_EXTENDED = 2
    /\ pkt' = lwpkt_set_addr_extended_enabled(pkt, enable)
    /\ last' = [NoCall EXCEPT !.op = "set"]

SetFlagsEnabled(enable) ==
    /\ cfg.USE_FLAGS = 2
    /\ pkt' = lwpkt_set_flags_enabled(pkt, enable)
    /\ last' = [NoCall EXCEPT !.op = "set"]

SetCmdEnabled(enable) ==
    /\ cfg.USE_CMD = 2
    /\ pkt' = lwpkt_set_cmd_enabled(pkt, enable)
    /\ last' = [NoCall EXCEPT !.op = "set"]

SetCrcEnabled(enable) ==
    /\ cfg.USE_CRC = 2
    /\ pkt' = lwpkt_set_crc_enabled(pkt, enable)
    /\ last' = [NoCall EXCEPT !.op = "set"]

SetCrc32Enabled(enable) ==
    /\ cfg.CRC32 = 2
    /\ pkt' = lwpkt_set_crc32_enabled(pkt, enable)
    /\ last' = [NoCall EXCEPT !.op = "set"]

\* any of the setters
Configure ==
    \/ \E addr \in {U32(18), U32(133), <<4660, 22136>>} : SetAddr(addr)
    \/ \E enable \in BOOLEAN :
        \/ SetAddrEnabled(enable)
        \/ SetAddrExtendedEnabled(enable)
        \/ SetFlagsEnabled(enable)
        \/ SetCmdEnabled(enable)
        \/ SetCrcEnabled(enable)
        \/ SetCrc32Enabled(enable)

(***************************************************************************)
(* lwpkt_write, lwpkt_read and lwpkt_reset as whole calls                  *)
(***************************************************************************)

\* the arguments a caller passes: a feature that is off takes the value 0
ToArgs == IF UseAddr(cfg, pkt) THEN {U32(17), U32(144), <<34661, 17185>>} ELSE {U32_ZERO}
FlagsArgs == IF UseFlags(cfg, pkt) THEN {U32_ZERO, <<44238, 21775>>} ELSE {U32_ZERO}
CmdArgs == IF UseCmd(cfg, pkt) THEN {0, 133} ELSE {0}
DataArgs == {<<>>, <<72>>, <<170, 85, 128>>}

Write(to, flags, cmd, data) ==
    \E wr \in {lwpkt_write(cfg, pkt, tx_rb, lwpkt_addr_t(cfg, to), flags, cmd, data)} :
        /\ tx_rb' = wr.tx_rb
        /\ last' = [op |-> "write", res |-> wr.res, evts |-> wr.evts, stored |-> {}]
        /\ msg' = [addr |-> pkt.addr, to |-> lwpkt_addr_t(cfg, to), flags |-> flags,
                   cmd |-> cmd, data |-> data]
        /\ enc' = [calls |-> <<>>, attempted |-> wr.attempted,
                   accepted |-> wr.accepted, before |-> tx_rb, drained |-> <<>>, r |-> 0]

\* a terminal verdict of lwpkt_read
Terminal == {"VALID", "ERRCRC", "ERRSTOP", "ERRMEM", "ERR"}

Read ==
    \E rd \in {lwpkt_read(cfg, pkt, rx_rb)} :
        /\ pkt' = rd.p
        /\ rx_rb' = rd.rx_rb
        /\ last' = [op |-> "read", res |-> rd.res, evts |-> rd.evts, stored |-> rd.stored]
        /\ log' = IF rd.res \in Terminal
                  THEN Append(log, [res |-> rd.res, fields |-> Fields(rd.p)])
                  ELSE log

Reset ==
    /\ pkt' = lwpkt_reset(pkt)
    /\ last' = [NoCall EXCEPT !.op = "reset"]

RECURSIVE Loopback(_, _)
\* the loop of run_test (lwpkt_test.c lines 80-83): every byte of the TX ring
\* is read and written to the RX ring
Loopback(tx, rx) ==
    LET got == lwrb_read(tx, 1)
    IN  IF Len(got.data) = 1
        THEN LET put == lwrb_write(rx, got.data)
             IN  After(put, Loopback(got.rb, put.rb))
        ELSE [tx |-> got.rb, rx |-> rx]

(***************************************************************************)
(* Specification Spec: run_test of lwpkt_test.c.  The program configures   *)
(* the instance, writes one packet, moves the TX bytes to the RX ring and  *)
(* reads once.                                                             *)
(***************************************************************************)

Init ==
    /\ \E c \in {CfgDynamic, CfgDefault, CfgStatic} : Constructed(c)
    /\ pc = "setup"

RtConfigure ==
    /\ pc = "setup"
    /\ Configure
    /\ UNCHANGED <<cfg, tx_rb, rx_rb, pc, msg, input, fed, log, sched, scen, enc, clock, thr>>

RtWrite ==
    /\ pc = "setup"
    /\ \E to \in ToArgs, flags \in FlagsArgs, cmd \in CmdArgs, data \in DataArgs :
          Write(to, flags, cmd, data)
    /\ pc' = "written"
    /\ UNCHANGED <<cfg, pkt, rx_rb, input, fed, log, sched, scen, clock, thr>>

RtLoopback ==
    /\ pc = "written"
    /\ LET moved == Loopback(tx_rb, rx_rb)
       IN  tx_rb' = moved.tx /\ rx_rb' = moved.rx
    /\ pc' = "moved"
    /\ last' = [NoCall EXCEPT !.op = "loopback"]
    /\ UNCHANGED <<cfg, pkt, msg, input, fed, log, sched, scen, enc, clock, thr>>

RtRead ==
    /\ pc = "moved"
    /\ Read
    /\ pc' = "done"
    /\ UNCHANGED <<cfg, tx_rb, msg, input, fed, sched, scen, enc, clock, thr>>

Next == RtConfigure \/ RtWrite \/ RtLoopback \/ RtRead

Spec == Init /\ [][Next]_vars

\* the packet of msg can be sent in the mode the instance is in: without
\* extended addressing an address is one byte
MsgFitsMode ==
    (UseAddr(cfg, pkt) /\ ~AddrExtended(cfg, pkt))
        => (msg.addr[1] = 0 /\ msg.addr[2] < 256 /\ msg.to[1] = 0 /\ msg.to[2] < 256)

\* lwpkt_read gave back what lwpkt_write was given
ReadBackExact ==
    /\ last.res = "VALID"
    /\ UseAddr(cfg, pkt) => (pkt.m.from = msg.addr /\ pkt.m.to = msg.to)
    /\ UseFlags(cfg, pkt) => pkt.m.flags = msg.flags
    /\ UseCmd(cfg, pkt) => pkt.m.cmd = msg.cmd
    /\ pkt.m.len = U32(Len(msg.data))
    /\ \A i \in 1..Len(msg.data) : pkt.data[i - 1] = msg.data[i]

\* run_test has written a packet that fitted the TX ring, moved it and read once
RoundTripDone ==
    /\ pc = "done"
    /\ enc.attempted # <<>>
    /\ MsgFitsMode

\* C1: in every configuration, a packet that fits the mode and the TX ring,
\* written by lwpkt_write, moved to the RX ring and read by one lwpkt_read,
\* is reported Valid with exactly the fields and payload that were written.
C1_RoundTrip == RoundTripDone => ReadBackExact

(***************************************************************************)
(* Specification SpecDecode: a peer with the same build and settings sends *)
(* a byte stream; the driver writes it to the RX ring in chunks and the    *)
(* program calls lwpkt_read.                                               *)
(***************************************************************************)

\* builds of the receiver
CfgAddrDyn ==
    [USE_ADDR |-> 1, ADDR_EXTENDED |-> 2, USE_FLAGS |-> 0, USE_CMD |-> 0,
     USE_CRC |-> 1, CRC32 |-> 0, SHIFT |-> "mask"]

\* a payload of the largest length lwpkt_read accepts, and one a byte longer
FullPayload == [i \in 1..LWPKT_CFG_MAX_DATA_LEN |-> IF i = 1 THEN 170 ELSE 84 + i]
OverPayload == [i \in 1..(LWPKT_CFG_MAX_DATA_LEN + 1) |-> 64 + i]

\* the bytes lwpkt_write of the peer with own address addr puts on the wire
PeerFrame(addr, to, flags, cmd, data) ==
    Flatten(lwpkt_write_calls(cfg, [pkt EXCEPT !.addr = lwpkt_addr_t(cfg, addr)],
                              lwpkt_addr_t(cfg, to), flags, cmd, data))

\* the frame with byte k damaged on the wire
Damaged(frame, k) == [frame EXCEPT ![k] = (frame[k] + 1) % 256]

\* the frame of a scenario of the given kind
KindFrame(kind, addr, to, data) ==
    LET frame == PeerFrame(addr, to, U32_ZERO, 133, data)
    IN  CASE kind = "badcrc"  -> Damaged(frame, Len(frame) - 1)
          [] kind = "badstop" -> Damaged(frame, Len(frame))
          [] OTHER            -> frame

\* the scenarios <<prefix, kind, payload, second frame, its payload>>: every
\* kind of frame alone, valid frames behind bytes left on the line, and two
\* frames in a row
Scenarios ==
    {<<<<>>, k[1], k[2], FALSE, <<>>>> :
        k \in {<<"valid", <<>>>>, <<"valid", <<72>>>>, <<"valid", FullPayload>>,
               <<"over", OverPayload>>, <<"badstop", <<72>>>>, <<"badcrc", <<72>>>>}}
    \cup {<<g, "valid", d, FALSE, <<>>>> : g \in {<<0, 85>>, <<170>>}, d \in {<<72>>, FullPayload}}
    \cup {<<<<>>, k, <<72>>, TRUE, <<72>>>> : k \in {"valid", "badstop"}}
    \cup {<<<<>>, "over", OverPayload, TRUE, FullPayload>>}

DecInit ==
    /\ \E c \in {CfgDefault, CfgAddrDyn} : Constructed(c)
    /\ pc = "setup"

DecConfigure ==
    /\ pc = "setup"
    /\ \E enable \in BOOLEAN : SetAddrExtendedEnabled(enable)
    /\ UNCHANGED <<cfg, tx_rb, rx_rb, pc, msg, input, fed, log, sched, scen, enc, clock, thr>>

\* the peer starts to send
Connect ==
    /\ pc = "setup"
    /\ \E ends \in {<<U32(18), U32(17)>>, <<U32(133), U32(144)>>}, sc \in Scenarios :
          /\ input' = sc[1] \o KindFrame(sc[2], ends[1], ends[2], sc[3])
                        \o (IF sc[4] THEN PeerFrame(U32(18), U32(17), U32_ZERO, 0, sc[5])
                            ELSE <<>>)
          /\ msg' = [addr |-> lwpkt_addr_t(cfg, ends[1]), to |-> lwpkt_addr_t(cfg, ends[2]),
                     flags |-> U32_ZERO, cmd |-> 133, data |-> sc[3]]
          /\ scen' = [g |-> sc[1], kind |-> sc[2], two |-> sc[4], next |-> sc[5], calls |-> 0]
    /\ pc' = "rx"
    /\ last' = [NoCall EXCEPT !.op = "connect"]
    /\ UNCHANGED <<cfg, pkt, tx_rb, rx_rb, fed, log, sched, enc, clock, thr>>

\* the driver writes the next n bytes of the stream to the RX ring
Feed(n) ==
    /\ pc = "rx"
    /\ n <= Len(input) - fed
    /\ n <= lwrb_get_free(rx_rb)
    /\ rx_rb' = lwrb_write(rx_rb, SubSeq(input, fed + 1, fed + n)).rb
    /\ fed' = fed + n
    /\ sched' = (sched /\ last.op \in {"connect", "read"})
    /\ last' = [NoCall EXCEPT !.op = "feed"]
    /\ UNCHANGED <<cfg, pkt, tx_rb, pc, msg, input, log, scen, enc, clock, thr>>

DecFeed == \E n \in 1..(RX_SIZE - 1) : Feed(n)

DecRead ==
    /\ pc = "rx"
    /\ Read
    /\ sched' = (sched /\ last.op = "feed")
    /\ UNCHANGED <<cfg, tx_rb, pc, msg, input, fed, scen, enc, clock, thr>>

DecNext == DecConfigure \/ Connect \/ DecFeed \/ DecRead

SpecDecode == DecInit /\ [][DecNext]_vars

(***************************************************************************)
(* Chunking and resynchronisation                                          *)
(***************************************************************************)

RECURSIVE BytewiseLog(_, _, _, _, _)
\* the verdicts, with the fields read back, when the bytes s are written to
\* the ring one at a time and lwpkt_read is called after each
BytewiseLog(c, p, rb, s, lg) ==
    IF Len(s) = 0 THEN lg
    ELSE LET rd == lwpkt_read(c, p, lwrb_write(rb, <<Head(s)>>).rb)
             lg2 == IF rd.res \in Terminal
                    THEN Append(lg, [res |-> rd.res, fields |-> Fields(rd.p)])
                    ELSE lg
         IN  After(<<rd, lg2>>, BytewiseLog(c, rd.p, rd.rx_rb, Tail(s), lg2))

\* the instance as it was when the peer started to send
FreshPkt == [pkt EXCEPT !.m = M_RESET, !.data = lwpkt_init.data]

\* the verdicts of the stream s fed byte by byte
RefLog(s) == BytewiseLog(cfg, FreshPkt, lwrb_init(RX_SIZE), s, <<>>)

IsPrefix(a, b) == Len(a) <= Len(b) /\ SubSeq(b, 1, Len(a)) = a

\* every byte of the stream was written to the RX ring and has been read
Drained == pc = "rx" /\ fed = Len(input) /\ lwrb_get_full(rx_rb) = 0

\* C2 as stated: after every chunk exactly one lwpkt_read, and the verdicts
\* are those of the byte by byte partition.
C2_OneReadPerChunk ==
    (pc = "rx" /\ fed = Len(input) /\ sched /\ last.op = "read") => log = RefLog(input)

\* C2: however the stream is cut into chunks and whenever lwpkt_read is
\* called, the verdicts returned so far, with their fields, are the first
\* verdicts of the byte by byte partition, and all of them once lwpkt_read
\* has been called until the RX ring is empty; a call that ends without a
\* verdict has emptied the ring and returns InProgress or WaitData.
C2_Chunking ==
    /\ last.op = "read" => last.res \in Terminal \cup {"INPROG", "WAITDATA"}
    /\ (last.op = "read" /\ last.res \notin Terminal) =>
          /\ lwrb_get_full(rx_rb) = 0
          /\ last.res = (IF pkt.m.state = "START" THEN "WAITDATA" ELSE "INPROG")
    /\ pc = "rx" => IsPrefix(log, RefLog(input))
    /\ Drained => log = RefLog(input)

\* two frames were read back, the second from bytes a call had left in the ring
C2_Witness ==
    /\ Drained
    /\ scen.two
    /\ Len(log) = 2
    /\ log[1].res = "VALID"
    /\ log[2].res = "VALID"
    /\ ~sched

\* the fields f are those of the frame the peer sent
FieldsOfMsg(f) ==
    /\ UseAddr(cfg, pkt) => (f.from = msg.addr /\ f.to = msg.to)
    /\ UseFlags(cfg, pkt) => f.flags = msg.flags
    /\ UseCmd(cfg, pkt) => f.cmd = msg.cmd
    /\ f.len = U32(Len(msg.data))
    /\ f.data = msg.data

\* the stream is bytes left on the line and then one valid frame
PrefixedFrame == scen.kind = "valid" /\ ~scen.two

ReadsOneAddressByte ==
    /\ last'.op = "read"
    /\ pkt.m.state \in {"FROM", "TO"}
    /\ ~AddrExtended(cfg, pkt)
    /\ lwrb_get_full(rx_rb) = 1

\* C4: with extended addressing off for the instance, the byte read at From
\* or at To, whatever its value, is the whole field: the parser is at the
\* next enabled field afterwards.
C4_OneByteAddress ==
    [][ReadsOneAddressByte => pkt'.m.state = NextRxState(cfg, pkt)]_vars

(***************************************************************************)
(* The payload cap and the parser after a verdict                          *)
(***************************************************************************)

\* the decoded length is more than the payload buffer holds
LenOver(m) == m.len[1] > 0 \/ m.len[2] > LWPKT_CFG_MAX_DATA_LEN

\* what a lwpkt_read call that starts in the Data state does
DataStep ==
    LET have == lwrb_get_full(rx_rb)
        index == pkt.m.index
    IN  IF LenOver(pkt.m)
        THEN IF have > LWPKT_CFG_MAX_DATA_LEN - index
             THEN last'.res = "ERRMEM" /\ pkt'.m.state = "START"
             ELSE last'.res = "INPROG" /\ pkt'.m.state = "DATA"
        ELSE /\ last'.res # "ERRMEM"
             /\ have >= pkt.m.len[2] - index =>
                   /\ pkt'.m.state # "DATA"
                   /\ last'.stored = index..(pkt.m.len[2] - 1)

\* C8: once the decoded length exceeds LWPKT_CFG_MAX_DATA_LEN, lwpkt_read
\* stays in Data until the byte after the buffer is full arrives and then
\* returns ErrMem with the parser in Start; no frame is reported Valid with
\* such a length; a length of exactly LWPKT_CFG_MAX_DATA_LEN never gives
\* ErrMem, and all its payload bytes are stored.
C8_PayloadCap ==
    /\ [](/\ (last.op = "read" /\ last.res = "ERRMEM") => pkt.m.state = "START"
          /\ \A i \in 1..Len(log) : log[i].res = "VALID" => ~LenOver(log[i].fields)
          /\ pkt.m.state = "DATA" => pkt.m.index <= LWPKT_CFG_MAX_DATA_LEN)
    /\ [][(last'.op = "read" /\ pkt.m.state = "DATA") => DataStep]_vars

\* a frame a byte too long was refused with ErrMem and the frame behind it,
\* of the largest length, was read back
C8_Witness ==
    /\ Drained
    /\ scen.kind = "over"
    /\ scen.two
    /\ Len(log) = 2
    /\ log[1].res = "ERRMEM"
    /\ log[2].res = "VALID"
    /\ log[2].fields.len = U32(LWPKT_CFG_MAX_DATA_LEN)
    /\ log[2].fields.data = scen.next

MaxFree == 14
MaxDrain == 2

\* where the read index may stand when the call is made: the pending bytes
\* wrap around the end of the storage, or the frame does
FillOffsets == {TX_SIZE - 4, TX_SIZE \div 3}

\* a build with the CRC switchable at run time
CfgCrcDyn ==
    [USE_ADDR |-> 1, ADDR_EXTENDED |-> 0, USE_FLAGS |-> 0, USE_CMD |-> 1,
     USE_CRC |-> 2, CRC32 |-> 2, SHIFT |-> "mask"]

\* n bytes of an earlier frame
Filler(n) == [i \in 1..n |-> 200 + i]

\* the bytes a ring holds, oldest first
Content(rb) == lwrb_read(rb, lwrb_get_full(rb)).data

\* the ring after offset bytes went through it and fill bytes are pending
Used(rb, offset, fill) ==
    LET passed == lwrb_read(lwrb_write(rb, Filler(offset)).rb, offset).rb
    IN  lwrb_write(passed, Filler(fill)).rb

\* the packets the program writes
EncMsgs ==
    {<<U32(17), U32_ZERO, 133, <<>>>>,
     <<<<34661, 17185>>, <<44238, 21775>>, 133, <<170, 85, 128>>>>}

\* the bytes of the frame of msg
FrameBytes ==
    Flatten(lwpkt_write_calls(cfg, pkt, msg.to, msg.flags, msg.cmd, msg.data))

EncInit ==
    /\ \E c \in {CfgCrcDyn, CfgAddrDyn, CfgStatic} : Constructed(c)
    /\ pc = "setup"

EncConfigure ==
    /\ pc = "setup"
    /\ \/ SetAddr(<<4660, 22136>>)
       \/ \E enable \in BOOLEAN :
            \/ SetAddrExtendedEnabled(enable)
            \/ SetCrcEnabled(enable)
            \/ SetCrc32Enabled(enable)
    /\ UNCHANGED <<cfg, tx_rb, rx_rb, pc, msg, input, fed, log, sched, scen, enc, clock, thr>>

\* earlier frames went through the TX ring and some of their bytes are pending
Prefill ==
    /\ pc = "setup"
    /\ \/ tx_rb' = tx_rb
       \/ \E offset \in FillOffsets, free \in 0..MaxFree :
            tx_rb' = Used(tx_rb, offset, TX_SIZE - 1 - free)
    /\ pc' = "idle"
    /\ last' = [NoCall EXCEPT !.op = "fill"]
    /\ UNCHANGED <<cfg, pkt, rx_rb, msg, input, fed, log, sched, scen, enc, clock, thr>>

\* lwpkt_write up to its memory check, PreWrite sent: the call ends there
\* with ErrMem, or goes on to its lwrb_write calls
EncBegin ==
    /\ pc = "idle"
    /\ \E m \in EncMsgs :
         LET to == lwpkt_addr_t(cfg, m[1])
             wr == lwpkt_write(cfg, pkt, tx_rb, to, m[2], m[3], m[4])
             calls == lwpkt_write_calls(cfg, pkt, to, m[2], m[3], m[4])
         IN  /\ msg' = [addr |-> pkt.addr, to |-> to, flags |-> m[2], cmd |-> m[3],
                        data |-> m[4]]
             /\ IF WriteHasMem(cfg, pkt, tx_rb, to, m[2], Len(m[4]))
                THEN /\ pc' = "enc_load"
                     /\ tx_rb' = tx_rb
                     /\ last' = [NoCall EXCEPT !.op = "begin", !.evts = <<"PRE_WRITE">>]
                     /\ enc' = [calls |-> calls, attempted |-> Flatten(calls),
                                accepted |-> <<>>, before |-> tx_rb,
                                drained |-> <<>>, r |-> tx_rb.r]
                ELSE /\ pc' = "done"
                     /\ tx_rb' = wr.tx_rb
                     /\ last' = [op |-> "write", res |-> wr.res, evts |-> wr.evts,
                                 stored |-> {}]
                     /\ enc' = [calls |-> <<>>, attempted |-> wr.attempted,
                                accepted |-> wr.accepted, before |-> tx_rb,
                                drained |-> <<>>, r |-> tx_rb.r]
    /\ UNCHANGED <<cfg, pkt, rx_rb, input, fed, log, sched, scen, clock, thr>>

\* lwrb_write loads the read index to compute the free space
EncLoad ==
    /\ pc = "enc_load"
    /\ enc' = [enc EXCEPT !.r = tx_rb.r]
    /\ pc' = "enc_store"
    /\ UNCHANGED <<cfg, pkt, tx_rb, rx_rb, last, msg, input, fed, log, sched, scen, clock, thr>>

\* lwrb_write copies what fits the free space it computed and stores the write
\* index; after the last lwrb_write, lwpkt_write sends PostWrite and Write
\* and returns lwpktOK
EncStore ==
    /\ pc = "enc_store"
    /\ LET wr == lwrb_write([tx_rb EXCEPT !.r = enc.r], Head(enc.calls))
           left == Tail(enc.calls)
       IN  /\ tx_rb' = [wr.rb EXCEPT !.r = tx_rb.r]
           /\ enc' = [enc EXCEPT !.calls = left,
                                 !.accepted = @ \o SubSeq(Head(enc.calls), 1, wr.n)]
           /\ pc' = IF left = <<>> THEN "done" ELSE "enc_load"
           /\ last' = IF left = <<>>
                      THEN [op |-> "write", res |-> "OK",
                            evts |-> last.evts \o <<"POST_WRITE", "WRITE">>, stored |-> {}]
                      ELSE [last EXCEPT !.op = "step"]
    /\ UNCHANGED <<cfg, pkt, rx_rb, msg, input, fed, log, sched, scen, clock, thr>>

\* the consumer takes the oldest byte out of the TX ring during the call
Drain ==
    /\ pc \in {"enc_load", "enc_store"}
    /\ Len(enc.drained) < MaxDrain
    /\ lwrb_get_full(tx_rb) > 0
    /\ LET rd == lwrb_read(tx_rb, 1)
       IN  /\ tx_rb' = rd.rb
           /\ enc' = [enc EXCEPT !.drained = @ \o rd.data]
    /\ UNCHANGED <<cfg, pkt, rx_rb, pc, last, msg, input, fed, log, sched, scen, clock, thr>>

EncNext == EncConfigure \/ Prefill \/ EncBegin \/ EncLoad \/ EncStore \/ Drain

SpecEncode == EncInit /\ [][EncNext]_vars

\* lwpkt_write has returned
Written == pc = "done" /\ last.op = "write"

\* C5: when the free space of the TX ring is less than the length of the
\* frame, lwpkt_write returns ErrMem and the ring is as before: the same
\* indices, the same stored bytes, the same full().
C5_OverflowRefusal ==
    (Written /\ lwrb_get_free(enc.before) < Len(FrameBytes)) =>
        /\ last.res = "ERRMEM"
        /\ tx_rb = enc.before
        /\ lwrb_get_full(tx_rb) = lwrb_get_full(enc.before)
        /\ Content(tx_rb) = Content(enc.before)
        /\ last.evts = <<"PRE_WRITE", "POST_WRITE">>

\* a frame one byte longer than the free space was refused
C5_Witness ==
    /\ Written
    /\ last.res = "ERRMEM"
    /\ lwrb_get_free(enc.before) = Len(FrameBytes) - 1
    /\ lwrb_get_full(tx_rb) > 0
    /\ tx_rb.w < tx_rb.r

\* C6: each lwrb_write of lwpkt_write stores all of its bytes, also while the
\* consumer takes bytes out: what was in the ring and what lwpkt_write stored
\* so far is what the consumer took and what the ring holds; when lwpkt_write
\* has returned, the ring got the whole frame in order, or ErrMem was
\* returned and the ring got nothing.
C6_Atomic ==
    /\ pc \in {"enc_load", "enc_store"} =>
          /\ enc.accepted \o Flatten(enc.calls) = enc.attempted
          /\ Content(enc.before) \o enc.accepted = enc.drained \o Content(tx_rb)
    /\ Written =>
          \/ /\ last.res = "OK"
             /\ enc.accepted = FrameBytes
             /\ Content(enc.before) \o FrameBytes = enc.drained \o Content(tx_rb)
          \/ /\ last.res = "ERRMEM"
             /\ enc.accepted = <<>>
             /\ tx_rb = enc.before

\* a frame with a payload was written whole while the consumer took bytes out
C6_Witness ==
    /\ Written
    /\ last.res = "OK"
    /\ Len(enc.drained) = MaxDrain
    /\ msg.data # <<>>
    /\ enc.accepted = FrameBytes
    /\ tx_rb.w < enc.before.w

MaxChunk == 2
MaxMidCalls == 2

\* a build with the address width and the CRC switchable at run time, and a
\* build with the address, flags and command fields switchable, on a machine
\* where a shift by 32 or more yields 0
CfgMemCrc ==
    [USE_ADDR |-> 1, ADDR_EXTENDED |-> 2, USE_FLAGS |-> 0, USE_CMD |-> 0,
     USE_CRC |-> 2, CRC32 |-> 2, SHIFT |-> "mask"]
CfgMemFields ==
    [USE_ADDR |-> 2, ADDR_EXTENDED |-> 0, USE_FLAGS |-> 2, USE_CMD |-> 2,
     USE_CRC |-> 1, CRC32 |-> 0, SHIFT |-> "zero"]

\* the streams of the peer: a frame with the largest payload, a frame with a
\* payload too long, and a frame whose length field has more continuation
\* bytes than a 32-bit length takes
MemStreams ==
    {PeerFrame(U32(133), U32(144), U32(5), 133, FullPayload),
     PeerFrame(U32(18), U32(17), U32_ZERO, 0, OverPayload),
     <<LWPKT_START_BYTE, 18, 17, 128, 128, 128, 128, 128, 128, 0>> \o OverPayload}

MemInit ==
    /\ \E c \in {CfgMemCrc, CfgMemFields} : Constructed(c)
    /\ pc = "setup"

MemConnect ==
    /\ pc = "setup"
    /\ \E s \in MemStreams : input' = s
    /\ scen' = [NoScen EXCEPT !.kind = "stream"]
    /\ pc' = "rx"
    /\ last' = [NoCall EXCEPT !.op = "connect"]
    /\ UNCHANGED <<cfg, pkt, tx_rb, rx_rb, msg, fed, log, sched, enc, clock, thr>>

\* the driver writes the next chunk when the program has read the last one
MemFeed ==
    /\ lwrb_get_full(rx_rb) = 0
    /\ \E n \in 1..MaxChunk : Feed(n)

\* the program calls lwpkt_read when the driver has written bytes
MemRead ==
    /\ pc = "rx"
    /\ lwrb_get_full(rx_rb) > 0
    /\ Read
    /\ sched' = (sched /\ last.op = "feed")
    /\ UNCHANGED <<cfg, tx_rb, pc, msg, input, fed, scen, enc, clock, thr>>

\* a setter called while the stream is being received
MemToggle ==
    /\ pc = "rx"
    /\ scen.calls < MaxMidCalls
    /\ scen' = [scen EXCEPT !.calls = @ + 1]
    /\ \E enable \in BOOLEAN :
        \/ SetAddrEnabled(enable)
        \/ SetAddrExtendedEnabled(enable)
        \/ SetFlagsEnabled(enable)
        \/ SetCmdEnabled(enable)
        \/ SetCrcEnabled(enable)
        \/ SetCrc32Enabled(enable)
    /\ UNCHANGED <<cfg, tx_rb, rx_rb, pc, msg, input, fed, log, sched, enc, clock, thr>>

MemReset ==
    /\ pc = "rx"
    /\ scen.calls < MaxMidCalls
    /\ scen' = [scen EXCEPT !.calls = @ + 1]
    /\ Reset
    /\ UNCHANGED <<cfg, tx_rb, rx_rb, pc, msg, input, fed, log, sched, enc, clock, thr>>

MemNext == MemConnect \/ MemFeed \/ MemRead \/ MemToggle \/ MemReset

SpecMem == MemInit /\ [][MemNext]_vars

\* C9: whatever the stream, the chunks and the setter and lwpkt_reset calls
\* between the lwpkt_read calls, lwpkt_read stores payload bytes only at
\* indices below LWPKT_CFG_MAX_DATA_LEN of pkt->data, the index of a parser
\* in Data never exceeds LWPKT_CFG_MAX_DATA_LEN, and the parser is never in
\* Data with len = 0.
C9_MemorySafe ==
    /\ last.stored \subseteq 0..(LWPKT_CFG_MAX_DATA_LEN - 1)
    /\ DOMAIN pkt.data = 0..(LWPKT_CFG_MAX_DATA_LEN - 1)
    /\ pkt.m.state = "DATA" =>
          /\ U32Gt0(pkt.m.len)
          /\ pkt.m.index <= LWPKT_CFG_MAX_DATA_LEN

\* a feature was switched in the middle of a frame, with the payload buffer
\* full and the frame announcing more payload
C9_Witness ==
    /\ pc = "rx"
    /\ last.op = "set"
    /\ pkt.flags # 255
    /\ pkt.m.state = "DATA"
    /\ pkt.m.index = LWPKT_CFG_MAX_DATA_LEN
    /\ LenOver(pkt.m)

(***************************************************************************)
(* Specification SpecProc: the program calls lwpkt_process with the value  *)
(* of a free-running 32-bit millisecond counter, while the driver feeds a  *)
(* byte stream and time goes by.                                           *)
(***************************************************************************)
MaxWaits == 2

\* the frame the peer sends last in a stream of the given kind
ProcMsg(kind) ==
    [addr |-> lwpkt_addr_t(cfg, IF kind \in {"shift", "recover", "flip"} THEN U32(133)
                                ELSE U32(18)),
     to |-> lwpkt_addr_t(cfg, U32(17)), flags |-> U32_ZERO, cmd |-> 133,
     data |-> IF kind \in {"shift", "flip"} THEN <<1, 72>> ELSE <<72>>]

\* the streams: a frame and two bytes of noise behind it ("tail"), a frame
\* from address 0x85 with the payload 01 48 ("shift"), a frame with a
\* damaged CRC and a frame from address 0x85 behind it ("recover"), a frame
\* that arrives slowly ("timed"), and the frame of "shift" before one of its
\* bits is flipped on the line ("flip")
ProcStream(kind, m) ==
    (IF kind = "recover" THEN KindFrame("badcrc", U32(18), U32(17), <<72>>) ELSE <<>>)
        \o PeerFrame(m.addr, m.to, m.flags, m.cmd, m.data)
        \o (IF kind = "tail" THEN <<0, 85>> ELSE <<>>)

ProcConnect ==
    /\ pc = "setup"
    /\ \E kind \in {"tail", "shift", "recover", "timed", "flip"} :
          /\ \E f \in {ProcStream(kind, ProcMsg(kind))} :
                \* a bit of a byte between the start byte and the CRC is flipped
                input' \in IF kind = "flip"
                           THEN {[f EXCEPT ![k] = Xor8(@, Pow2(j))] :
                                    k \in 2..(Len(f) - CRC_DATA_LEN(cfg, pkt) - 1),
                                    j \in 0..7}
                           ELSE {f}
          /\ msg' = ProcMsg(kind)
          /\ scen' = [NoScen EXCEPT !.kind = kind]
    \* the counter reads 0, or is half a timeout before it wraps
    /\ \E t0 \in {U32_ZERO, U32Sub(U32_ZERO, U32(LWPKT_CFG_PROCESS_INPROG_TIMEOUT \div 2))} :
          clock' = [NoClock EXCEPT !.t0 = t0]
    /\ pc' = "rx"
    /\ last' = [NoCall EXCEPT !.op = "connect"]
    /\ UNCHANGED <<cfg, pkt, tx_rb, rx_rb, fed, log, sched, enc, thr>>

\* the driver writes the next byte, or all the rest, when the ring is empty
ProcFeed ==
    /\ lwrb_get_full(rx_rb) = 0
    /\ \E n \in {1, Len(input) - fed} : n >= 1 /\ Feed(n)

\* the program waits one millisecond, one less than the timeout, or the timeout
ProcWait ==
    /\ pc = "rx"
    /\ scen.kind = "timed"
    /\ clock.waits < MaxWaits
    /\ \E d \in {1, LWPKT_CFG_PROCESS_INPROG_TIMEOUT - 1, LWPKT_CFG_PROCESS_INPROG_TIMEOUT} :
          clock' = [clock EXCEPT !.now = @ + d, !.waits = @ + 1]
    /\ last' = [NoCall EXCEPT !.op = "wait"]
    /\ UNCHANGED <<cfg, pkt, tx_rb, rx_rb, pc, msg, input, fed, log, sched, scen, enc, thr>>

\* the program calls lwpkt_process with the counter
Process ==
    /\ pc = "rx"
    /\ \E r \in {lwpkt_process(cfg, pkt, rx_rb, U32Add(clock.t0, clock.now))} :
          /\ pkt' = r.p
          /\ rx_rb' = r.rx_rb
          /\ last' = [op |-> "process", res |-> r.res, evts |-> r.evts,
                      stored |-> r.stored, cb |-> r.cb, cb_rx_time |-> r.cb_rx_time]
          /\ log' = IF r.res \in Terminal
                    THEN Append(log, [res |-> r.res, fields |-> Fields(r.p)])
                    ELSE log
    /\ sched' = (sched /\ last.op = "feed")
    /\ UNCHANGED <<cfg, tx_rb, pc, msg, input, fed, scen, enc, clock, thr>>

ProcNext == DecConfigure \/ ProcConnect \/ ProcFeed \/ ProcWait \/ Process

ProcInit ==
    /\ \E c \in {CfgDefault, CfgAddrDyn, CfgStatic} : Constructed(c)
    /\ pc = "setup"

SpecProc == ProcInit /\ [][ProcNext]_vars


(***************************************************************************)
(* The frame fields after Valid                                            *)
(***************************************************************************)

\* C11: when lwpkt_process returns Valid the accessors return the fields of
\* the frame the peer sent, the Packet callback sees the same values, and a
\* later call that finds the RX ring empty or without a start byte, made
\* while the instance holds a frame, leaves them as they are.
C11_FieldsAfterValid ==
    [][/\ (last'.op = "process" /\ last'.res = "VALID") =>
              (FieldsOfMsg(Fields(pkt')) /\ last'.cb = <<Fields(pkt')>>)
       /\ (/\ last'.op = "process"
           /\ log # <<>>
           /\ log[Len(log)].res = "VALID"
           /\ pkt.m.state = "START"
           /\ \A i \in 1..lwrb_get_full(rx_rb) : Content(rx_rb)[i] # LWPKT_START_BYTE) =>
              Fields(pkt') = Fields(pkt)]_vars

(***************************************************************************)
(* Recovery after an error                                                 *)
(***************************************************************************)

\* C12: after a call that returns ErrCrc, ErrStop, ErrMem or Err the parser
\* is in Start, and when the first frame of the stream gave ErrCrc, the
\* valid frame behind it is returned as Valid with its own fields.
C12_Recovery ==
    /\ (last.op = "process" /\ last.res \in Terminal \ {"VALID"}) => pkt.m.state = "START"
    /\ (Drained /\ scen.kind = "recover" /\ log # <<>> /\ log[1].res = "ERRCRC") =>
          /\ Len(log) = 2
          /\ log[2].res = "VALID"
          /\ FieldsOfMsg(log[2].fields)

(***************************************************************************)
(* One verdict for each call                                               *)
(***************************************************************************)

\* C13: with two valid frames back to back in the RX ring, the first
\* lwpkt_read returns Valid with the fields of the first frame and leaves
\* the bytes of the second frame in the ring, the second lwpkt_read returns
\* Valid with the fields of the second frame and leaves the ring empty, and
\* the third returns WaitData.
C13_OneVerdictPerCall ==
    [][(/\ last'.op = "read"
        /\ scen.kind = "valid"
        /\ scen.two
        /\ fed = Len(input)) =>
          CASE lwrb_get_full(rx_rb) = Len(input) ->
                  /\ last'.res = "VALID"
                  /\ FieldsOfMsg(Fields(pkt'))
                  /\ Content(rx_rb') = PeerFrame(U32(18), U32(17), U32_ZERO, 0, scen.next)
            [] /\ Len(log) = 1
               /\ Content(rx_rb) = PeerFrame(U32(18), U32(17), U32_ZERO, 0, scen.next) ->
                  /\ last'.res = "VALID"
                  /\ UseAddr(cfg, pkt) => /\ pkt'.m.from = lwpkt_addr_t(cfg, U32(18))
                                          /\ pkt'.m.to = lwpkt_addr_t(cfg, U32(17))
                  /\ UseCmd(cfg, pkt) => pkt'.m.cmd = 0
                  /\ Fields(pkt').len = U32(Len(scen.next))
                  /\ Fields(pkt').data = scen.next
                  /\ lwrb_get_full(rx_rb') = 0
            [] lwrb_get_full(rx_rb) = 0 /\ Len(log) = 2 ->
                  last'.res = "WAITDATA"
            [] OTHER -> TRUE]_vars

(***************************************************************************)
(* The stop byte                                                           *)
(***************************************************************************)

\* C14: lwpkt_read returns Valid only when the last byte it read is the
\* stop byte 0x55, and a frame that is right up to its CRC and has another
\* byte in the place of the stop byte gives ErrStop and not Valid: the
\* verdicts of the stream are ErrStop and, when a valid frame follows, Valid
\* for that frame.
C14_StopByte ==
    [][last'.op = "read" =>
          /\ last'.res = "VALID" =>
                Content(rx_rb)[lwrb_get_full(rx_rb) - lwrb_get_full(rx_rb')] = LWPKT_STOP_BYTE
          /\ (Drained' /\ scen.kind = "badstop") =>
                /\ Len(log') = (IF scen.two THEN 2 ELSE 1)
                /\ log'[1].res = "ERRSTOP"
                /\ scen.two => log'[2].res = "VALID"]_vars

(***************************************************************************)
(* One flipped bit                                                         *)
(***************************************************************************)

RECURSIVE StateTrace(_, _, _)
\* the parser states in which lwpkt_read takes the bytes s, one after another
StateTrace(c, p, s) ==
    IF Len(s) = 0 THEN <<>>
    ELSE <<p.m.state>> \o StateTrace(c, lwpkt_read_byte(c, p, Head(s)).p, Tail(s))

C16_OverlongRejected ==
    [][last'.op = "read" =>
          /\ pkt'.m.state \in {"FROM", "TO", "FLAGS", "LEN"} => pkt'.m.index <= 5
          /\ (/\ pkt.m.state \in {"FROM", "TO", "FLAGS", "LEN"}
              /\ pkt.m.index = 5
              /\ lwrb_get_full(rx_rb) > 0) =>
                (last'.res = "ERR" /\ pkt'.m.state = "START")]_vars

(***************************************************************************)
(* A feature switched while a frame is being read                          *)
(***************************************************************************)

\* C17: a lwpkt_set_*_enabled call made while the parser is not in Start
\* changes nothing for the frame being read: the bytes still to come give
\* the verdict, the fields and the bytes left in the ring that they give
\* without the call.
C17_ToggleMidFrame ==
    [][(last'.op = "set" /\ pkt.m.state # "START") =>
          \E rest \in {lwrb_write(lwrb_init(RX_SIZE),
                                  Content(rx_rb) \o SubSeq(input, fed + 1, Len(input))).rb} :
             /\ lwpkt_read(cfg, pkt', rest).res = lwpkt_read(cfg, pkt, rest).res
             /\ lwpkt_read(cfg, pkt', rest).rx_rb = lwpkt_read(cfg, pkt, rest).rx_rb
             /\ Fields(lwpkt_read(cfg, pkt', rest).p) = Fields(lwpkt_read(cfg, pkt, rest).p)]_vars

(***************************************************************************)
(* The timeout of lwpkt_process                                            *)
(***************************************************************************)

\* C18: when the lwpkt_read of a lwpkt_process(t) call returns InProg and
\* t - last_rx_time, taken modulo 2^32, is at least the timeout, the parser
\* is reset, last_rx_time is t and one Timeout event is sent; when it is
\* less than the timeout, the parser is as lwpkt_read left it, last_rx_time
\* is unchanged and no Timeout event is sent.
C18_Timeout ==
    [][(last'.op = "process" /\ last'.res = "INPROG") =>
          IF U32Ge(U32Sub(U32Add(clock.t0, clock.now), pkt.last_rx_time),
                   LWPKT_CFG_PROCESS_INPROG_TIMEOUT)
          THEN /\ pkt'.m = M_RESET
               /\ pkt'.last_rx_time = U32Add(clock.t0, clock.now)
               /\ Len(SelectSeq(last'.evts, LAMBDA e : e = "TIMEOUT")) = 1
          ELSE /\ pkt'.m = lwpkt_read(cfg, pkt, rx_rb).p.m
               /\ pkt'.m.state # "START"
               /\ pkt'.last_rx_time = pkt.last_rx_time
               /\ Len(SelectSeq(last'.evts, LAMBDA e : e = "TIMEOUT")) = 0]_vars

\* a call made the timeout after the last one found the frame unfinished
\* and reset the parser
C18_Witness ==
    /\ scen.kind = "timed"
    /\ last.op = "process"
    /\ last.res = "INPROG"
    /\ last.evts[Len(last.evts)] = "TIMEOUT"
    /\ clock.t0 = U32_ZERO
    /\ clock.now = LWPKT_CFG_PROCESS_INPROG_TIMEOUT
    /\ pkt.m = M_RESET
    /\ pkt.last_rx_time = U32(LWPKT_CFG_PROCESS_INPROG_TIMEOUT)
    /\ fed > 0

(***************************************************************************)
(* What the timeout discards                                               *)
(***************************************************************************)

\* C19: a lwpkt_process call that reads a byte of the frame being received
\* sends no Timeout event and leaves the parser in the frame.
C19_InactivityOnly ==
    [][(/\ last'.op = "process"
        /\ lwrb_get_full(rx_rb) > 0
        /\ last'.res = "INPROG") =>
          (pkt'.m.state # "START" /\ \A i \in 1..Len(last'.evts) : last'.evts[i] # "TIMEOUT")]_vars

(***************************************************************************)
(* The counter wraps                                                       *)
(***************************************************************************)

\* C20: when last_rx_time is the value the counter had k milliseconds after
\* the start, a lwpkt_process call whose lwpkt_read returns InProg sends
\* Timeout exactly when the milliseconds gone by since then are at least the
\* timeout, whether or not the counter went from 2^32 - 1 to 0 in between.
C20_WrapSafe ==
    [][(last'.op = "process" /\ last'.res = "INPROG") =>
          \A k \in 0..clock.now :
             U32Add(clock.t0, k) = pkt.last_rx_time =>
                ((\E i \in 1..Len(last'.evts) : last'.evts[i] = "TIMEOUT")
                    <=> clock.now - k >= LWPKT_CFG_PROCESS_INPROG_TIMEOUT)]_vars

\* the counter went through 0 between the call that set last_rx_time and the
\* call, the timeout later, that reset the parser
C20_Witness ==
    /\ scen.kind = "timed"
    /\ last.op = "process"
    /\ last.res = "INPROG"
    /\ last.evts[Len(last.evts)] = "TIMEOUT"
    /\ clock.t0 = U32Sub(U32_ZERO, U32(LWPKT_CFG_PROCESS_INPROG_TIMEOUT \div 2))
    /\ clock.now = LWPKT_CFG_PROCESS_INPROG_TIMEOUT
    /\ clock.waits = 1
    /\ pkt.last_rx_time = U32(LWPKT_CFG_PROCESS_INPROG_TIMEOUT \div 2)
    /\ pkt.m.state = "START"
    /\ fed = 2

(***************************************************************************)
(* The events of lwpkt_process                                             *)
(***************************************************************************)

\* C21: a lwpkt_process(t) call returns the verdict of one lwpkt_read and
\* leaves the RX ring as that lwpkt_read leaves it; lwpkt_read itself sends
\* neither Packet nor Timeout; the call sends Packet once when the verdict is
\* Valid, with last_rx_time already t, and not otherwise; it sends Timeout at
\* most once and only when the verdict is InProg and the timeout has gone
\* by; and after every verdict but InProg last_rx_time is t.
C21_ProcessEvents ==
    [][last'.op = "process" =>
          \E rd \in {lwpkt_read(cfg, pkt, rx_rb)} :
             /\ last'.res = rd.res
             /\ rx_rb' = rd.rx_rb
             /\ \A i \in 1..Len(rd.evts) : rd.evts[i] \notin {"PKT", "TIMEOUT"}
             /\ Len(SelectSeq(last'.evts, LAMBDA e : e = "PKT"))
                   = (IF last'.res = "VALID" THEN 1 ELSE 0)
             /\ last'.res = "VALID" => last'.cb_rx_time = <<U32Add(clock.t0, clock.now)>>
             /\ Len(SelectSeq(last'.evts, LAMBDA e : e = "TIMEOUT"))
                   <= (IF /\ last'.res = "INPROG"
                          /\ U32Ge(U32Sub(U32Add(clock.t0, clock.now), pkt.last_rx_time),
                                   LWPKT_CFG_PROCESS_INPROG_TIMEOUT)
                       THEN 1 ELSE 0)
             /\ last'.res # "INPROG" => pkt'.last_rx_time = U32Add(clock.t0, clock.now)]_vars

\* a call returned Valid and sent Packet with last_rx_time at a counter
\* value other than the one lwpkt_init left
C21_Witness ==
    /\ last.op = "process"
    /\ last.res = "VALID"
    /\ last.evts = <<"PRE_READ", "POST_READ", "READ", "PKT">>
    /\ clock.t0 # U32_ZERO
    /\ last.cb_rx_time = <<clock.t0>>
    /\ pkt.last_rx_time = clock.t0
    /\ lwrb_get_full(rx_rb) > 0

(***************************************************************************)
(* The events of lwpkt_write                                               *)
(***************************************************************************)

\* C22: lwpkt_write sends Write exactly when it returns OK, as its last
\* event and when every byte of the frame is in the TX ring or was taken
\* from it by the consumer; PreWrite is the first event of every call and is
\* sent before lwpkt_write loads or stores an index of the TX ring, and
\* PostWrite is sent once, after the last of these; a call that returns
\* ErrMem sends PreWrite and PostWrite only.
C22_WriteEvents ==
    [][/\ (pc \in {"enc_load", "enc_store"} /\ (pc' # pc \/ tx_rb'.w # tx_rb.w)) =>
            last.evts = <<"PRE_WRITE">>
       /\ (pc' = "done" /\ last'.op = "write") =>
            /\ last'.res \in {"OK", "ERRMEM"}
            /\ last'.evts = IF last'.res = "OK"
                            THEN <<"PRE_WRITE", "POST_WRITE", "WRITE">>
                            ELSE <<"PRE_WRITE", "POST_WRITE">>
            /\ last'.res = "OK" =>
                  /\ enc'.calls = <<>>
                  /\ enc'.accepted = Flatten(lwpkt_write_calls(cfg, pkt, msg'.to, msg'.flags, msg'.cmd, msg'.data))
                  /\ enc'.drained \o Content(tx_rb') = Content(enc'.before) \o enc'.accepted
            /\ last'.res = "ERRMEM" => tx_rb' = tx_rb /\ pc = "idle"]_vars

\* a frame with payload was written around the end of the storage while the
\* consumer took bytes, and Write came last
C22_Witness ==
    /\ Written
    /\ last.res = "OK"
    /\ last.evts = <<"PRE_WRITE", "POST_WRITE", "WRITE">>
    /\ Len(msg.data) = 3
    /\ Len(enc.drained) = MaxDrain
    /\ tx_rb.w < enc.before.w

(***************************************************************************)
(* The calls with a null instance                                          *)
(*                                                                         *)
(* The program configures a valid instance and, in between, calls the      *)
(* functions with a null pointer for the instance.  last records the       *)
(* function, what it returned, the instance fields it read through the     *)
(* null pointer and whether an event function was called.                  *)
(***************************************************************************)

\* the default of lwpkt_opt.h; no build in the repository overrides it
LWPKT_CFG_USE_EVT == 1

\* SEND_EVT(p, t) with p null. Without events the macro evaluates nothing.
\* With events it reads p->evt_fn through the null pointer, which is
\* undefined: the read traps, or it yields a null function pointer and nothing
\* is called, or it yields something that is called.
SEND_EVT_null(use_evt) ==
    IF use_evt = 0
    THEN {[trap |-> FALSE, reads |-> {}, called |-> FALSE]}
    ELSE {[trap |-> t, reads |-> {"evt_fn"}, called |-> c] :
            <<t, c>> \in {<<TRUE, FALSE>>, <<FALSE, FALSE>>, <<FALSE, TRUE>>}}

\* the functions with a null check
NullChecked ==
    {"lwpkt_init", "lwpkt_set_addr", "lwpkt_read", "lwpkt_process", "lwpkt_write",
     "lwpkt_reset"}

\* fn(NULL, ...): lwpkt_write sends PreWrite before its null check and
\* PostWrite after it; the other functions check first and return lwpktERR
NullCall(fn, use_evt) ==
    IF fn = "lwpkt_write"
    THEN {[res |-> IF pre.trap \/ post.trap THEN "TRAP" ELSE "ERR",
           reads |-> pre.reads \cup post.reads,
           called |-> pre.called \/ (~pre.trap /\ post.called)] :
            pre \in SEND_EVT_null(use_evt), post \in SEND_EVT_null(use_evt)}
    ELSE {[res |-> "ERR", reads |-> {}, called |-> FALSE]}

CallNull ==
    /\ \E fn \in NullChecked, use_evt \in {0, LWPKT_CFG_USE_EVT} :
         \E o \in NullCall(fn, use_evt) :
            last' = [op |-> "null", res |-> o.res, evts |-> <<>>, stored |-> {},
                     fn |-> fn, use_evt |-> use_evt, reads |-> o.reads,
                     called |-> o.called]
    /\ UNCHANGED <<cfg, pkt, tx_rb, rx_rb, pc, msg, input, fed, log, sched, scen, enc, clock, thr>>

NullNext == EncConfigure \/ CallNull

SpecNull == EncInit /\ [][NullNext]_vars

\* C23: lwpkt_init, lwpkt_read, lwpkt_write, lwpkt_process, lwpkt_reset and
\* lwpkt_set_addr called with a null instance return Err, read no field of
\* an instance, call no event function and leave the instance and both
\* rings as they are.
C23_NullRejected ==
    [][last'.op = "null" =>
          /\ last'.res = "ERR"
          /\ last'.reads = {}
          /\ ~last'.called
          /\ UNCHANGED <<pkt, tx_rb, rx_rb>>]_vars

(***************************************************************************)
(* The ring buffer on its own, one caller                                  *)
(*                                                                         *)
(* tx_rb is the ring.  The bytes a lwrb_write offers are numbered on: fed  *)
(* is the number of bytes the writes stored so far, so that the byte       *)
(* stored k-th has the value k.  While pc is "fifo" the caller uses        *)
(* lwrb_write and lwrb_read only, and enc.accepted and enc.drained are the *)
(* bytes the writes stored and the reads returned; while it is "any" the   *)
(* caller uses every function.                                             *)
(***************************************************************************)

\* the size of the ring, the longest array a call passes, and the most bytes
\* the writes store in one run
RB_SIZE == 3
MaxLen == 3
MaxBytes == 3

\* the call of the ring buffer just made
RbCall(op, n, src, skip, btp, data) ==
    [op |-> op, n |-> n, src |-> src, skip |-> skip, btp |-> btp, data |-> data,
     was_empty |-> lwrb_get_full(tx_rb) = 0]

\* lwrb_init on zeroed storage of some size; earlier traffic may have left
\* the indices anywhere
RbInit ==
    /\ cfg = CfgDefault
    /\ pkt = lwpkt_init
    /\ \E size \in {1, 2, RB_SIZE} : \E offset \in 0..(size - 1) :
          tx_rb = Used(lwrb_init(size), offset, 0)
    /\ rx_rb = lwrb_init(1)
    /\ pc \in {"fifo", "any"}
    /\ last = NoCall
    /\ msg = NoMsg
    /\ input = <<>>
    /\ fed = 0
    /\ log = <<>>
    /\ sched = TRUE
    /\ scen = NoScen
    /\ enc = NoEnc
    /\ clock = NoClock
    /\ thr = NoThr

RbWrite ==
    /\ \E len \in 0..MaxLen :
         /\ fed + len <= MaxBytes
         /\ \E src \in {[i \in 1..len |-> fed + i]} : \E wr \in {lwrb_write(tx_rb, src)} :
              /\ tx_rb' = wr.rb
              /\ fed' = fed + wr.n
              /\ last' = RbCall("write", wr.n, src, 0, 0, <<>>)
              /\ enc' = IF pc = "fifo"
                        THEN [enc EXCEPT !.accepted = @ \o SubSeq(src, 1, wr.n)]
                        ELSE enc
    /\ UNCHANGED <<cfg, pkt, rx_rb, pc, msg, input, log, sched, scen, clock, thr>>

RbRead ==
    /\ \E btr \in 0..MaxLen : \E rd \in {lwrb_read(tx_rb, btr)} :
         /\ tx_rb' = rd.rb
         /\ last' = RbCall("read", Len(rd.data), <<>>, 0, btr, rd.data)
         /\ enc' = IF pc = "fifo" THEN [enc EXCEPT !.drained = @ \o rd.data] ELSE enc
    /\ UNCHANGED <<cfg, pkt, rx_rb, pc, msg, input, fed, log, sched, scen, clock, thr>>

RbPeek ==
    /\ pc = "any"
    /\ \E skip \in 0..RB_SIZE, btp \in 0..MaxLen :
         \E data \in {lwrb_peek(tx_rb, skip, btp)} :
            last' = RbCall("peek", Len(data), <<>>, skip, btp, data)
    /\ UNCHANGED <<cfg, pkt, tx_rb, rx_rb, pc, msg, input, fed, log, sched, scen, enc, clock, thr>>

RbSkip ==
    /\ pc = "any"
    /\ \E len \in 0..MaxLen : \E sk \in {lwrb_skip(tx_rb, len)} :
         /\ tx_rb' = sk.rb
         /\ last' = RbCall("skip", sk.n, <<>>, 0, len, <<>>)
    /\ UNCHANGED <<cfg, pkt, rx_rb, pc, msg, input, fed, log, sched, scen, enc, clock, thr>>

RbAdvance ==
    /\ pc = "any"
    /\ \E len \in 0..MaxLen : \E ad \in {lwrb_advance(tx_rb, len)} :
         /\ tx_rb' = ad.rb
         /\ last' = RbCall("advance", ad.n, <<>>, 0, len, <<>>)
    /\ UNCHANGED <<cfg, pkt, rx_rb, pc, msg, input, fed, log, sched, scen, enc, clock, thr>>

RbReset ==
    /\ pc = "any"
    /\ tx_rb' = lwrb_reset(tx_rb)
    /\ last' = RbCall("reset", 0, <<>>, 0, 0, <<>>)
    /\ UNCHANGED <<cfg, pkt, rx_rb, pc, msg, input, fed, log, sched, scen, enc, clock, thr>>

\* lwrb_find for a needle that the ring may hold, whole or in part
RbFind ==
    /\ pc = "any"
    /\ \E needle \in {<<1>>, <<1, 2>>, <<2, 3>>}, start_offset \in 0..1 :
         \E f \in {lwrb_find(tx_rb, needle, start_offset)} :
            last' = [RbCall("find", f.found, needle, start_offset, 0, <<>>)
                       EXCEPT !.data = <<f.found_idx>>]
    /\ UNCHANGED <<cfg, pkt, tx_rb, rx_rb, pc, msg, input, fed, log, sched, scen, enc, clock, thr>>

RbNext == RbWrite \/ RbRead \/ RbPeek \/ RbSkip \/ RbAdvance \/ RbReset \/ RbFind

SpecRing == RbInit /\ [][RbNext]_vars

\* C24: after lwrb_init and any calls of lwrb_write, lwrb_read, lwrb_peek,
\* lwrb_skip, lwrb_advance and lwrb_reset on a ring of size S, both indices
\* are in 0..S-1, free() + full() = S - 1, full() <= S - 1, the ring is
\* empty exactly when w = r and full exactly when (w + 1) mod S = r.
C24_Accounting ==
    /\ tx_rb.r \in 0..(tx_rb.size - 1)
    /\ tx_rb.w \in 0..(tx_rb.size - 1)
    /\ lwrb_get_free(tx_rb) + lwrb_get_full(tx_rb) = tx_rb.size - 1
    /\ lwrb_get_full(tx_rb) \in 0..(tx_rb.size - 1)
    /\ lwrb_get_full(tx_rb) = 0 <=> tx_rb.w = tx_rb.r
    /\ lwrb_get_free(tx_rb) = 0 <=> (tx_rb.w + 1) % tx_rb.size = tx_rb.r

\* the ring is full across the end of its storage after a call that was cut
\* to the free space
C24_Witness ==
    /\ pc = "any"
    /\ last.op \in {"write", "advance"}
    /\ last.n > 0 /\ last.n < Len(last.src) + last.btp
    /\ tx_rb.size = RB_SIZE
    /\ lwrb_get_free(tx_rb) = 0
    /\ tx_rb.w < tx_rb.r

\* C25: while the caller uses lwrb_write and lwrb_read only, whatever the
\* sizes of the calls and wherever the indices started, the bytes the reads
\* returned, one after the other, are the first of the bytes the writes
\* stored, in their order, and the ring holds the rest; and after a write
\* of B, no longer than S - 1, to an empty ring a read of Len(B) bytes
\* returns B.
C25_Fifo ==
    [][pc = "fifo" =>
          /\ IsPrefix(enc'.drained, enc'.accepted)
          /\ enc'.drained \o Content(tx_rb') = enc'.accepted
          /\ (/\ last.op = "write" /\ last.was_empty
              /\ Len(last.src) <= tx_rb.size - 1
              /\ last'.op = "read" /\ last'.btp = Len(last.src)) =>
                last'.data = last.src]_vars

\* two bytes written around the end of the storage to an empty ring came
\* back in one read, after an earlier byte
C25_Witness ==
    /\ pc = "fifo"
    /\ tx_rb.size = RB_SIZE
    /\ last.op = "read" /\ last.btp = 2 /\ last.data = <<2, 3>>
    /\ enc.drained = <<1, 2, 3>>
    /\ tx_rb.r = 1

\* C29: lwrb_write of src stores min(Len(src), free()) bytes and returns that
\* number, 0 when the ring is full; the bytes stored are the first of src in
\* their order, after the bytes the ring held; no byte yet to be read is
\* changed and the read index stays.
C29_WriteCount ==
    [][last'.op = "write" =>
          /\ last'.n = BUF_MIN(Len(last'.src), lwrb_get_free(tx_rb))
          /\ Content(tx_rb') = Content(tx_rb) \o SubSeq(last'.src, 1, last'.n)
          /\ tx_rb'.r = tx_rb.r
          /\ \A k \in 0..(lwrb_get_full(tx_rb) - 1) :
                tx_rb'.buff[(tx_rb.r + k) % tx_rb.size] = tx_rb.buff[(tx_rb.r + k) % tx_rb.size]
          /\ lwrb_get_free(tx_rb) = 0 => last'.n = 0 /\ tx_rb' = tx_rb]_vars

\* a write longer than the free space was cut, next to a byte yet to be read,
\* and took the write index around the end of the storage
C29_Witness ==
    /\ last.op = "write"
    /\ tx_rb.size = RB_SIZE
    /\ last.n > 0 /\ last.n < Len(last.src)
    /\ ~last.was_empty
    /\ tx_rb.w = 0
    /\ lwrb_get_free(tx_rb) = 0

\* C30: lwrb_peek leaves the indices and the stored bytes as they are; it
\* returns 0 when skip >= full(), and otherwise min(btp, full() - skip)
\* bytes, which are the bytes a lwrb_read would deliver at the offsets
\* skip .. skip + count - 1, also around the end of the storage.
C30_Peek ==
    [][last'.op = "peek" =>
          /\ tx_rb' = tx_rb
          /\ last'.skip >= lwrb_get_full(tx_rb) => last'.n = 0
          /\ last'.skip < lwrb_get_full(tx_rb) =>
                last'.n = BUF_MIN(last'.btp, lwrb_get_full(tx_rb) - last'.skip)
          /\ last'.data = SubSeq(lwrb_read(tx_rb, lwrb_get_full(tx_rb)).data,
                                 last'.skip + 1, last'.skip + last'.n)]_vars

\* a peek that skipped the last byte of the storage and returned the first
C30_Witness ==
    /\ last.op = "peek"
    /\ tx_rb.size = RB_SIZE
    /\ tx_rb.r = RB_SIZE - 1
    /\ last.skip = 1 /\ last.n = 1 /\ last.btp > 1
    /\ last.data = <<tx_rb.buff[0]>>
    /\ tx_rb.buff[0] # tx_rb.buff[RB_SIZE - 1]

(***************************************************************************)
(* The ring buffer between two threads                                     *)
(*                                                                         *)
(* A producer calls lwrb_write and a consumer calls lwrb_read on tx_rb,    *)
(* each a step at a time: the index loads up to the acquire load of the    *)
(* own index, then each byte of the two memcpy, then the release store of  *)
(* the own index.  thr.p and thr.c are the local variables of the two      *)
(* calls.  input is the bytes of the writes that have stored w, log the    *)
(* bytes the reads have returned.                                          *)
(*                                                                         *)
(* The bytes of the storage are plain objects.  A read of a byte is        *)
(* ordered after the write of it only when the load that showed the new    *)
(* index was an acquire load of the index the writer stored with release.  *)
(* Where the load is relaxed the two accesses race, and what the read      *)
(* yields depends on the build: on a machine that keeps the order of       *)
(* loads (thr.mem = "sc") the byte stored last, on one that does not       *)
(* ("weak") the byte load may be satisfied any time after the last         *)
(* release store of the own index, so that it yields the byte stored last  *)
(* or the byte the slot held then (thr.snap).  A store is not made visible *)
(* before a load it depends on, on any machine, so the producer is not     *)
(* modelled as writing early.                                              *)
(***************************************************************************)

\* the memory order of the load of index var in function fn
LoadOrder(fn, var) ==
    CASE fn \in {"lwrb_get_free", "lwrb_get_full"} -> "relaxed"
      [] fn = "lwrb_write" /\ var = "w" -> "acquire"
      [] fn = "lwrb_read" /\ var = "r" -> "acquire"

\* a call that stores its index also when the first memcpy is done
AfterCopyEach(tocopy, count, k) == IF k = count \/ k = tocopy THEN "store" ELSE "copy"

\* where a call goes on after copying k of its count bytes: the index is
\* stored when both memcpy are done
AfterCopy(tocopy, count, k) == IF k = count THEN "store" ELSE "copy"

\* the slot the k-th byte of a call that loaded index ptr is copied to or from
CopySlot(size, ptr, k) == IF k < size - ptr THEN ptr + k ELSE k - (size - ptr)

\* the index a call that loaded index ptr stores after count bytes
StoredIndex(size, ptr, count) ==
    LET tocopy == BUF_MIN(size - ptr, count)
        rest == count - tocopy
        p1 == IF rest > 0 THEN rest ELSE ptr + tocopy
    IN  IF p1 >= size THEN 0 ELSE p1

SpscInit ==
    /\ cfg = CfgDefault
    /\ pkt = lwpkt_init
    /\ \E offset \in 0..(RB_SIZE - 1) : tx_rb = Used(lwrb_init(RB_SIZE), offset, 0)
    /\ rx_rb = lwrb_init(1)
    /\ pc = "spsc"
    /\ last = NoCall
    /\ msg = NoMsg
    /\ input = <<>>
    /\ fed = 0
    /\ log = <<>>
    /\ sched = TRUE
    /\ scen = NoScen
    /\ enc = NoEnc
    /\ clock = NoClock
    /\ \E mem \in {"sc", "weak"} :
          thr = [NoThr EXCEPT !.mem = mem,
                              !.snap = IF mem = "weak" THEN tx_rb.buff ELSE <<>>]

\* lwrb_write up to its first memcpy: lwrb_get_free loads w and r, and
\* lwrb_write returns 0 or loads w
PBegin ==
    /\ thr.p.at = "idle"
    /\ \E len \in 1..MaxLen :
         /\ fed + len <= MaxBytes
         /\ LET free == lwrb_get_free(tx_rb)
                btw == BUF_MIN(free, len)
                gets == <<[fn |-> "lwrb_get_free", var |-> "w",
                           order |-> LoadOrder("lwrb_get_free", "w")],
                          [fn |-> "lwrb_get_free", var |-> "r",
                           order |-> LoadOrder("lwrb_get_free", "r")]>>
            IN  IF btw = 0
                THEN /\ thr' = thr
                     /\ last' = [op |-> "lwrb_write", n |-> 0, loads |-> gets]
                ELSE /\ thr' = [thr EXCEPT !.p = [at |-> "copy",
                                                  src |-> [i \in 1..len |-> fed + i],
                                                  free |-> free, btw |-> btw,
                                                  w |-> tx_rb.w, k |-> 0]]
                     /\ last' = [op |-> "lwrb_write", n |-> btw,
                                 loads |-> gets \o <<[fn |-> "lwrb_write", var |-> "w",
                                                      order |-> LoadOrder("lwrb_write", "w")]>>]
    /\ UNCHANGED <<cfg, pkt, tx_rb, rx_rb, pc, msg, input, fed, log, sched, scen, enc, clock>>

\* one byte of the memcpy of lwrb_write
PCopy ==
    /\ thr.p.at = "copy"
    /\ tx_rb' = [tx_rb EXCEPT !.buff[CopySlot(tx_rb.size, thr.p.w, thr.p.k)] =
                                 thr.p.src[thr.p.k + 1]]
    /\ thr' = [thr EXCEPT !.p.k = @ + 1,
                          !.p.at = AfterCopy(BUF_MIN(tx_rb.size - thr.p.w, thr.p.btw),
                                             thr.p.btw, thr.p.k + 1)]
    /\ last' = [op |-> "copy", n |-> 0, loads |-> <<>>]
    /\ UNCHANGED <<cfg, pkt, rx_rb, pc, msg, input, fed, log, sched, scen, enc, clock>>

\* the store of w; lwrb_write returns
PStore ==
    /\ thr.p.at = "store"
    /\ tx_rb' = [tx_rb EXCEPT !.w = StoredIndex(tx_rb.size, thr.p.w, thr.p.k)]
    /\ IF thr.p.k = thr.p.btw
       THEN /\ thr' = [thr EXCEPT !.p = NoThr.p]
            /\ input' = input \o SubSeq(thr.p.src, 1, thr.p.btw)
            /\ fed' = fed + thr.p.btw
       ELSE /\ thr' = [thr EXCEPT !.p.at = "copy"]
            /\ UNCHANGED <<input, fed>>
    /\ last' = [op |-> "store", n |-> 0, loads |-> <<>>]
    /\ UNCHANGED <<cfg, pkt, rx_rb, pc, msg, log, sched, scen, enc, clock>>

\* lwrb_read up to its first memcpy: lwrb_get_full loads w and r, and
\* lwrb_read returns 0 or loads r
CBegin ==
    /\ thr.c.at = "idle"
    /\ \E len \in {1, MaxLen} :
         LET full == lwrb_get_full(tx_rb)
             btr == BUF_MIN(full, len)
             gets == <<[fn |-> "lwrb_get_full", var |-> "w",
                        order |-> LoadOrder("lwrb_get_full", "w")],
                       [fn |-> "lwrb_get_full", var |-> "r",
                        order |-> LoadOrder("lwrb_get_full", "r")]>>
         IN  IF btr = 0
             THEN /\ thr' = thr
                  /\ last' = [op |-> "lwrb_read", n |-> 0, loads |-> gets]
             ELSE /\ thr' = [thr EXCEPT !.c = [at |-> "copy", full |-> full,
                                               btr |-> btr, r |-> tx_rb.r,
                                               k |-> 0, d |-> <<>>]]
                  /\ last' = [op |-> "lwrb_read", n |-> btr,
                              loads |-> gets \o <<[fn |-> "lwrb_read", var |-> "r",
                                                   order |-> LoadOrder("lwrb_read", "r")]>>]
    /\ UNCHANGED <<cfg, pkt, tx_rb, rx_rb, pc, msg, input, fed, log, sched, scen, enc, clock>>

\* one byte of the memcpy of lwrb_read
CCopy ==
    /\ thr.c.at = "copy"
    /\ \E b \in {tx_rb.buff[CopySlot(tx_rb.size, thr.c.r, thr.c.k)]}
              \cup (IF thr.mem = "weak" /\ LoadOrder("lwrb_get_full", "w") # "acquire"
                    THEN {thr.snap[CopySlot(tx_rb.size, thr.c.r, thr.c.k)]}
                    ELSE {}) :
         thr' = [thr EXCEPT !.c.k = @ + 1,
                            !.c.d = @ \o <<b>>,
                            !.c.at = AfterCopy(BUF_MIN(tx_rb.size - thr.c.r, thr.c.btr),
                                               thr.c.btr, thr.c.k + 1)]
    /\ last' = [op |-> "copy", n |-> 0, loads |-> <<>>]
    /\ UNCHANGED <<cfg, pkt, tx_rb, rx_rb, pc, msg, input, fed, log, sched, scen, enc, clock>>

\* the store of r; lwrb_read returns
CStore ==
    /\ thr.c.at = "store"
    /\ tx_rb' = [tx_rb EXCEPT !.r = StoredIndex(tx_rb.size, thr.c.r, thr.c.k)]
    /\ IF thr.c.k = thr.c.btr
       THEN /\ thr' = [thr EXCEPT !.c = NoThr.c,
                                  !.snap = IF thr.mem = "weak" THEN tx_rb.buff ELSE <<>>]
            /\ log' = log \o thr.c.d
       ELSE /\ thr' = [thr EXCEPT !.c.at = "copy"]
            /\ log' = log
    /\ last' = [op |-> "store", n |-> 0, loads |-> <<>>]
    /\ UNCHANGED <<cfg, pkt, rx_rb, pc, msg, input, fed, sched, scen, enc, clock>>

SpscNext == PBegin \/ PCopy \/ PStore \/ CBegin \/ CCopy \/ CStore

SpecSpsc == SpscInit /\ [][SpscNext]_vars

\* C26: with one producer and one consumer, their index loads, byte copies
\* and index stores interleaved in any way: the consumer never copies a slot
\* of a write that has not stored w, the producer never writes a slot that
\* holds a byte yet to be read, and the bytes the consumer has copied are
\* the first of the bytes written, in their order.
C26_SpscSafety ==
    /\ (thr.c.at = "copy" /\ thr.p.at # "idle") =>
          CopySlot(tx_rb.size, thr.c.r, thr.c.k)
             \notin {CopySlot(tx_rb.size, thr.p.w, j) : j \in 0..(thr.p.btw - 1)}
    /\ thr.p.at = "copy" =>
          CopySlot(tx_rb.size, thr.p.w, thr.p.k)
             \notin {CopySlot(tx_rb.size, tx_rb.r, j) : j \in 0..(lwrb_get_full(tx_rb) - 1)}
    /\ IsPrefix(log \o thr.c.d, input)

\* C27: lwrb_write stores w once, when all its bytes are copied, and lwrb_read
\* stores r once, when all its bytes are copied; each index goes from its
\* value at the call to its final value in that one step, so that the other
\* thread loads one of the two.
C27_PublishAfterCopy ==
    [][/\ tx_rb'.w # tx_rb.w =>
            /\ thr.p.at = "store" /\ thr.p.k = thr.p.btw /\ thr'.p.at = "idle"
            /\ tx_rb.w = thr.p.w
            /\ tx_rb'.w = (thr.p.w + thr.p.btw) % tx_rb.size
       /\ tx_rb'.r # tx_rb.r =>
            /\ thr.c.at = "store" /\ thr.c.k = thr.c.btr /\ thr'.c.at = "idle"
            /\ tx_rb.r = thr.c.r
            /\ tx_rb'.r = (thr.c.r + thr.c.btr) % tx_rb.size
       /\ thr.p.at = "store" => (thr'.p.at = "store" \/ tx_rb'.w # tx_rb.w)
       /\ thr.c.at = "store" => (thr'.c.at = "store" \/ tx_rb'.r # tx_rb.r)
       /\ tx_rb'.buff # tx_rb.buff => tx_rb'.w = tx_rb.w /\ thr.p.at = "copy"]_vars

\* a write has copied its two bytes around the end of the storage and has
\* not yet stored w, after a read that returned a byte
C27_Witness ==
    /\ thr.p.at = "store" /\ thr.p.btw = 2 /\ thr.p.k = 2
    /\ thr.p.w = RB_SIZE - 1
    /\ tx_rb.w = thr.p.w
    /\ tx_rb.buff[0] = thr.p.src[2]
    /\ log # <<>>

\* C28: the loads of the index of the other thread, r in lwrb_get_free for the
\* producer and w in lwrb_get_full for the consumer, are acquire loads.
C28_AcquireLoads ==
    [][\A i \in 1..Len(last'.loads) :
          \/ /\ last'.loads[i].fn = "lwrb_get_free" /\ last'.loads[i].var = "r"
          \/ /\ last'.loads[i].fn = "lwrb_get_full" /\ last'.loads[i].var = "w"
          => last'.loads[i].order = "acquire"]_vars

(***************************************************************************)
(* lwrb_find                                                               *)
(***************************************************************************)

\* C31: lwrb_find of a needle from start_offset returns 1 and the smallest
\* offset k >= start_offset with k + len <= full() at which the bytes a read
\* would deliver are the needle, also when the needle is the last bytes of
\* the ring or all of them; it returns 0 exactly when there is no such k;
\* and it leaves the ring as it is.
C31_Find ==
    [][last'.op = "find" =>
          LET full == lwrb_get_full(tx_rb)
              len == Len(last'.src)
              ks == {k \in last'.skip..(full - len) :
                        SubSeq(Content(tx_rb), k + 1, k + len) = last'.src}
          IN  /\ tx_rb' = tx_rb
              /\ last'.n = (IF ks = {} THEN 0 ELSE 1)
              /\ ks # {} => \A k \in ks : last'.data[1] <= k
              /\ ks # {} => last'.data[1] \in ks]_vars

(***************************************************************************)
(* lwrb_skip and lwrb_advance                                              *)
(***************************************************************************)

\* C37: lwrb_skip(n) moves the read index on by min(n, full()) modulo S and
\* returns that number, lwrb_advance(n) moves the write index on by
\* min(n, free()) modulo S and returns that number; the other index and the
\* storage stay; full() falls by the count of a skip and grows by the count
\* of an advance, so that no index passes the other.
C37_SkipAdvance ==
    [][/\ last'.op = "skip" =>
            /\ last'.n = BUF_MIN(last'.btp, lwrb_get_full(tx_rb))
            /\ tx_rb' = [tx_rb EXCEPT !.r = (tx_rb.r + last'.n) % tx_rb.size]
            /\ lwrb_get_full(tx_rb') = lwrb_get_full(tx_rb) - last'.n
       /\ last'.op = "advance" =>
            /\ last'.n = BUF_MIN(last'.btp, lwrb_get_free(tx_rb))
            /\ tx_rb' = [tx_rb EXCEPT !.w = (tx_rb.w + last'.n) % tx_rb.size]
            /\ lwrb_get_full(tx_rb') = lwrb_get_full(tx_rb) + last'.n]_vars

\* a skip of more bytes than the ring held took the read index around the
\* end of the storage and left the ring empty
C37_Witness ==
    /\ last.op = "skip"
    /\ tx_rb.size = RB_SIZE
    /\ last.n = RB_SIZE - 1 /\ last.n < last.btp
    /\ tx_rb.r < last.n
    /\ tx_rb.r = tx_rb.w

(***************************************************************************)
(* Counts that have grown old                                              *)
(***************************************************************************)

\* C36: with the producer and the consumer interleaved, from the moment
\* lwrb_write has computed free until it stores w, free is at most the
\* number of slots then free, and every slot it writes is one of them; from
\* the moment lwrb_read has computed full until it stores r, full is at most
\* the number of bytes then stored, and every slot it copies holds one of
\* them.
C36_StaleCounts ==
    /\ thr.p.at # "idle" =>
          /\ thr.p.btw <= thr.p.free
          /\ thr.p.free <= tx_rb.size - 1 - ((tx_rb.w - tx_rb.r) % tx_rb.size)
          /\ \A j \in 0..(thr.p.btw - 1) :
                (CopySlot(tx_rb.size, thr.p.w, j) - tx_rb.r) % tx_rb.size
                   >= (tx_rb.w - tx_rb.r) % tx_rb.size
    /\ thr.c.at # "idle" =>
          /\ thr.c.btr <= thr.c.full
          /\ thr.c.full <= (tx_rb.w - tx_rb.r) % tx_rb.size
          /\ \A j \in 0..(thr.c.btr - 1) :
                (CopySlot(tx_rb.size, thr.c.r, j) - tx_rb.r) % tx_rb.size
                   < (tx_rb.w - tx_rb.r) % tx_rb.size

\* a write was cut to a count of free slots that a read has since made too
\* small, and is still copying
C36_Witness ==
    /\ thr.p.at = "copy"
    /\ thr.p.btw < Len(thr.p.src)
    /\ thr.p.free < tx_rb.size - 1 - ((tx_rb.w - tx_rb.r) % tx_rb.size)
    /\ log # <<>>

(***************************************************************************)
(* The layout of a frame                                                   *)
(***************************************************************************)

\* bit j of the 32-bit value v
BitOf(v, j) ==
    IF j < 16 THEN (v[2] \div (2 ^ j)) % 2
    ELSE IF j < 32 THEN (v[1] \div (2 ^ (j - 16))) % 2
    ELSE 0

\* the i-th group of 7 bits of v, the lowest being the first
Group7(v, i) ==
    LET bit(b) == BitOf(v, 7 * (i - 1) + b)
    IN  bit(0) + 2 * bit(1) + 4 * bit(2) + 8 * bit(3) + 16 * bit(4) + 32 * bit(5) + 64 * bit(6)

\* v as VLQ7: the groups up to the highest that is not 0, lowest first,
\* bit 7 set on every byte but the last; one byte 0 for v = 0
Vlq7(v) ==
    LET n == CHOOSE k \in 1..5 :
                /\ \A i \in (k + 1)..5 : Group7(v, i) = 0
                /\ k = 1 \/ Group7(v, k) # 0
    IN  [i \in 1..n |-> Group7(v, i) + (IF i < n THEN 128 ELSE 0)]

\* the fields of a frame between START and the CRC, as the caller gave them
\* in msg, in the order of the wire
WireFields ==
    (IF UseAddr(cfg, pkt)
     THEN (IF AddrExtended(cfg, pkt)
           THEN Vlq7(msg.addr) \o Vlq7(msg.to)
           ELSE <<msg.addr[2] % 256, msg.to[2] % 256>>)
     ELSE <<>>)
    \o (IF UseFlags(cfg, pkt) THEN Vlq7(msg.flags) ELSE <<>>)
    \o (IF UseCmd(cfg, pkt) THEN <<msg.cmd>> ELSE <<>>)
    \o Vlq7(U32(Len(msg.data)))
    \o msg.data

RECURSIVE CrcWalk(_, _, _, _)

\* one byte of the walk below: t is what the switch of lwpkt_read did with
\* the first byte of s in the state p, cov the bytes covered before it
CrcWalkStep(c, p, s, cov, t) ==
    LET st == p.m.state
        covers == \/ st \in {"FROM", "TO", "FLAGS", "CMD", "LEN"}
                  \/ (st = "DATA" /\ t.stored # {})
        cov2 == IF st = "START" THEN <<>>
                ELSE IF covers THEN Append(cov, Head(s)) ELSE cov
        sum == prv_crc_in(c, p, prv_crc_init(c, p), cov2)
        ok == (t.res = "NONE" /\ t.p.m.state # "START" /\ UseCrc(c, p)) =>
                  t.p.m.crc = IF t.p.m.state = "STOP" THEN prv_crc_finish(c, p, sum) ELSE sum
    IN  IF t.res # "NONE"
        THEN [cov |-> cov2, ok |-> ok, res |-> t.res]
        ELSE LET w == CrcWalk(c, t.p, Tail(s), cov2)
             IN  [cov |-> w.cov, ok |-> ok /\ w.ok, res |-> w.res]

\* the bytes of the stream s that the decoder, from the state p on, consumes
\* in the states From, To, Flags, Cmd, Len and Data up to its first verdict
\* (cov), and whether after every byte m.crc is the CRC of exactly those
\* bytes, each taken once (ok)
CrcWalk(c, p, s, cov) ==
    IF s = <<>> THEN [cov |-> cov, ok |-> TRUE, res |-> "NONE"]
    ELSE CrcWalkStep(c, p, s, cov, lwpkt_read_byte(c, p, Head(s)))

\* C33: the CRC of the encoder and the CRC of the decoder are taken over the
\* same bytes: the bytes of from, to, flags, cmd, length and payload as they
\* are on the wire, in that order, and neither START, the CRC bytes nor
\* STOP; the decoder adds a byte exactly once, in the state that consumes it.
C33_CrcCoverage ==
    (pc = "moved" /\ enc.accepted # <<>> /\ Content(rx_rb) = enc.accepted /\ UseCrc(cfg, pkt)) =>
        \E w \in {CrcWalk(cfg, pkt, enc.accepted, <<>>)} :
            /\ Flatten(WriteCoveredCalls(cfg, pkt, msg.to, msg.flags, msg.cmd, msg.data)) = WireFields
            /\ w.ok
            /\ w.cov = WireFields


(***************************************************************************)
(* Specification SpecWalk: the program sets the features before a frame    *)
(* comes in; the driver feeds the frame; the program calls lwpkt_process,  *)
(* lets time go by and calls lwpkt_reset.                                  *)
(***************************************************************************)

\* the most lwpkt_reset calls while a stream comes in
MaxResets == 1

WkConfigure ==
    /\ pc = "setup"
    /\ \E enable \in BOOLEAN :
        \/ enable /\ SetAddr(U32(18))
        \/ SetAddrEnabled(enable)
        \/ SetAddrExtendedEnabled(enable)
        \/ SetFlagsEnabled(enable)
        \/ SetCmdEnabled(enable)
        \/ SetCrcEnabled(enable)
        \/ SetCrc32Enabled(enable)
    /\ UNCHANGED <<cfg, tx_rb, rx_rb, pc, msg, input, fed, log, sched, scen, enc, clock, thr>>

\* the peer sends a frame, whole or with a damaged CRC, from
\* the address 0x12 or 0x85, without payload or with two bytes
WkConnect ==
    /\ pc = "setup"
    /\ \E addr \in {U32(18), U32(133)}, data \in {<<>>, <<72, 73>>},
          kind \in {"valid", "badcrc"} :
          /\ input' = KindFrame(kind, addr, U32(17), data)
          /\ msg' = [addr |-> lwpkt_addr_t(cfg, addr), to |-> lwpkt_addr_t(cfg, U32(17)),
                     flags |-> U32_ZERO, cmd |-> 133, data |-> data]
          /\ scen' = [NoScen EXCEPT !.kind = kind]
    /\ pc' = "rx"
    /\ last' = [NoCall EXCEPT !.op = "connect"]
    /\ UNCHANGED <<cfg, pkt, tx_rb, rx_rb, fed, log, sched, enc, clock, thr>>

\* the program waits the time of the timeout, once
WkWait ==
    /\ pc = "rx"
    /\ clock.waits = 0
    /\ clock' = [clock EXCEPT !.now = @ + LWPKT_CFG_PROCESS_INPROG_TIMEOUT, !.waits = @ + 1]
    /\ last' = [NoCall EXCEPT !.op = "wait"]
    /\ UNCHANGED <<cfg, pkt, tx_rb, rx_rb, pc, msg, input, fed, log, sched, scen, enc, thr>>

WkReset ==
    /\ pc = "rx"
    /\ scen.calls < MaxResets
    /\ scen' = [scen EXCEPT !.calls = @ + 1]
    /\ Reset
    /\ UNCHANGED <<cfg, tx_rb, rx_rb, pc, msg, input, fed, log, sched, enc, clock, thr>>

WkNext == WkConfigure \/ WkConnect \/ ProcFeed \/ WkWait \/ Process \/ WkReset

WkInit ==
    /\ \E c \in {CfgDynamic, CfgDefault, CfgStatic} : Constructed(c)
    /\ pc = "setup"

SpecWalk == WkInit /\ [][WkNext]_vars

(***************************************************************************)
(* The order of the parser states                                          *)
(***************************************************************************)

\* the place of a state in the order of a frame
Rank(st) ==
    CASE st = "START" -> 0 [] st = "FROM" -> 1 [] st = "TO" -> 2 [] st = "FLAGS" -> 3
      [] st = "CMD" -> 4 [] st = "LEN" -> 5 [] st = "DATA" -> 6 [] st = "CRC" -> 7
      [] st = "STOP" -> 8 [] OTHER -> 9

\* the state st belongs to the frame the parser q is in
InFrame(c, q, st) ==
    CASE st \in {"FROM", "TO"} -> UseAddr(c, q)
      [] st = "FLAGS" -> UseFlags(c, q)
      [] st = "CMD" -> UseCmd(c, q)
      [] st = "DATA" -> q.m.len # U32_ZERO
      [] st = "CRC" -> UseCrc(c, q)
      [] OTHER -> st \in {"LEN", "STOP"}

RECURSIVE WalkOk(_, _, _)

\* one byte of the walk below: t is what the switch of lwpkt_read did with
\* the first byte of s in the state p
WalkOkStep(c, p, s, t) ==
    LET s0 == p.m.state
        s1 == t.p.m.state
        All == {"FROM", "TO", "FLAGS", "CMD", "LEN", "DATA", "CRC", "STOP"}
    IN  /\ \/ t.res = "NONE" /\ s1 = s0
           \/ t.res \in Terminal /\ s1 = "START"
           \/ /\ t.res = "NONE"
              /\ s1 \in All
              /\ Rank(s1) > Rank(s0)
              /\ InFrame(c, t.p, s1)
              /\ \A u \in All : (Rank(s0) < Rank(u) /\ Rank(u) < Rank(s1)) => ~InFrame(c, t.p, u)
              /\ t.p.m.index = 0
        /\ t.res = "NONE" => WalkOk(c, t.p, Tail(s))

\* lwpkt_read takes the bytes s from the state p on: after every byte the
\* parser is in the state it was in, or in Start with a verdict, or in the
\* first state behind it that belongs to the frame, with index 0
WalkOk(c, p, s) ==
    s = <<>> \/ WalkOkStep(c, p, s, lwpkt_read_byte(c, p, Head(s)))

\* C34: the parser goes through the states of a frame in the order From,
\* To, Flags, Cmd, Len, Data, Crc, Stop; it is in From and To iff addressing
\* is enabled, in Flags iff flags are, in Cmd iff cmd is, in Data iff the
\* decoded length is not 0, in Crc iff the CRC is enabled, and always in Len
\* and Stop; it goes back only to Start, by a verdict, a timeout or
\* lwpkt_reset; on entry to a state the index is 0.
C34_StateWalk ==
    [][/\ last'.op = "process" =>
            /\ WalkOk(cfg, pkt, Content(rx_rb))
            /\ \/ pkt'.m.state = pkt.m.state
               \/ Rank(pkt'.m.state) > Rank(pkt.m.state)
               \/ pkt'.m.state = "START" /\ last'.res \in Terminal
               \/ pkt'.m.state = "START" /\ last'.evts[Len(last'.evts)] = "TIMEOUT"
       /\ last'.op = "reset" => pkt'.m.state = "START"
       /\ last'.op \notin {"process", "reset"} => pkt'.m = pkt.m]_vars

\* a frame with every field and two payload bytes was read byte by byte up
\* to its verdict Valid
C34_Witness ==
    /\ pc = "rx" /\ last.op = "process" /\ last.res = "VALID"
    /\ UseAddr(cfg, pkt) /\ AddrExtended(cfg, pkt) /\ UseFlags(cfg, pkt) /\ UseCmd(cfg, pkt)
    /\ UseCrc(cfg, pkt) /\ Crc32(cfg, pkt)
    /\ Len(msg.data) = 2
    /\ fed = Len(input)
    /\ clock.waits = 0 /\ scen.calls = 0


(***************************************************************************)
(* The results of lwpkt_read without a verdict                             *)
(***************************************************************************)

RECURSIVE MidFrame(_, _, _, _)
\* whether, after lwpkt_read has taken the bytes s from the state p on, the
\* start byte of a frame has been taken and no verdict has come since; mid
\* says whether that was so before the bytes
MidFrame(c, p, s, mid) ==
    IF s = <<>> THEN mid
    ELSE \E t \in {lwpkt_read_byte(c, p, Head(s))} :
            MidFrame(c, t.p, Tail(s),
                     IF t.res \in Terminal THEN FALSE
                     ELSE IF mid THEN TRUE
                     ELSE Head(s) = LWPKT_START_BYTE)

\* C35: a lwpkt_read that returns no terminal verdict has found the RX ring
\* empty; it returns WaitData exactly when the parser is in Start then, and
\* InProg exactly when a start byte has been taken and no verdict has come
\* since; it never returns OK.
C35_NonTerminal ==
    [][last'.op = "read" =>
          /\ last'.res \in Terminal \cup {"WAITDATA", "INPROG"}
          /\ last'.res \notin Terminal =>
                /\ lwrb_get_full(rx_rb') = 0
                /\ rx_rb'.r = rx_rb.w
                /\ (last'.res = "WAITDATA") = (pkt'.m.state = "START")
                /\ (last'.res = "INPROG") =
                      MidFrame(cfg, pkt, Content(rx_rb), pkt.m.state # "START")]_vars

\* a call that found the ring empty in the middle of a frame returned InProg,
\* after a call that had returned WaitData for bytes before the frame
C35_Witness ==
    /\ pc = "rx" /\ last.op = "read" /\ last.res = "INPROG"
    /\ scen.g # <<>>
    /\ pkt.m.state = "DATA"
    /\ lwrb_get_full(rx_rb) = 0
    /\ fed < Len(input)


(***************************************************************************)
(* Specification SpecTerm: lwpkt_read turn by turn.  The program calls     *)
(* lwpkt_read in one thread while the driver writes the bytes of a stream  *)
(* to the RX ring in another, also while a call is running.  The thread of *)
(* the program keeps running: a turn of the loop that can be taken is      *)
(* taken in the end.                                                       *)
(***************************************************************************)

\* a turn of a loop that goes on when it finds the ring empty in the middle
\* of a frame, until the next byte is there
lwpkt_read_step_wait(c, p, rb) ==
    CHOOSE st \in
        {IF Len(rd.data) # 1
         THEN [p |-> p, rx_rb |-> rd.rb, took |-> 0, stored |-> {},
               done |-> p.m.state = "START",
               res |-> IF p.m.state = "START" THEN "WAITDATA" ELSE "NONE"]
         ELSE CHOOSE turn \in
                {[p |-> t.p, rx_rb |-> rd.rb, took |-> 1, stored |-> t.stored,
                  done |-> t.res # "NONE", res |-> t.res] :
                    t \in {lwpkt_read_byte(c, p, rd.data[1])}} : TRUE
         : rd \in {lwrb_read(rb, 1)}} : TRUE

\* one turn of the while loop of lwpkt_read: lwrb_read of one byte (rd), then
\* the switch (t), or the end of the loop when there was no byte
lwpkt_read_step(c, p, rb) ==
    CHOOSE st \in
        {IF Len(rd.data) # 1
         THEN [p |-> p, rx_rb |-> rd.rb, took |-> 0, stored |-> {},
               done |-> TRUE,
               res |-> IF p.m.state = "START" THEN "WAITDATA" ELSE "INPROG"]
         ELSE CHOOSE turn \in
                {[p |-> t.p, rx_rb |-> rd.rb, took |-> 1, stored |-> t.stored,
                  done |-> t.res # "NONE", res |-> t.res] :
                    t \in {lwpkt_read_byte(c, p, rd.data[1])}} : TRUE
         : rd \in {lwrb_read(rb, 1)}} : TRUE

\* the streams <<noise, kind, payload, second frame>>: a frame behind a byte
\* of noise, a frame with a damaged CRC before another frame, and a frame
\* with a payload too long
TmStreams ==
    {<<<<0>>, "valid", <<72>>, FALSE>>,
     <<<<>>, "badcrc", <<72>>, TRUE>>,
     <<<<>>, "over", OverPayload, FALSE>>}

\* the peer starts to send
TmConnect ==
    /\ pc = "setup"
    /\ \E sc \in TmStreams :
          /\ input' = sc[1] \o KindFrame(sc[2], U32(18), U32(17), sc[3])
                        \o (IF sc[4] THEN PeerFrame(U32(18), U32(17), U32_ZERO, 0, <<>>)
                            ELSE <<>>)
          /\ msg' = [addr |-> lwpkt_addr_t(cfg, U32(18)), to |-> lwpkt_addr_t(cfg, U32(17)),
                     flags |-> U32_ZERO, cmd |-> 133, data |-> sc[3]]
          /\ scen' = [g |-> sc[1], kind |-> sc[2], two |-> sc[4], next |-> <<>>, calls |-> 0]
    /\ pc' = "idle"
    /\ last' = [NoCall EXCEPT !.op = "connect"]
    /\ UNCHANGED <<cfg, pkt, tx_rb, rx_rb, fed, log, sched, enc, clock, thr>>

\* the driver writes the next bytes of the stream, whatever the program is
\* doing; of a running call, avail is the number of bytes in the ring when
\* it began and written since, took the number of bytes it has read
TmFeed ==
    /\ pc \in {"idle", "loop"}
    /\ \E n \in 1..MaxChunk :
          /\ n <= Len(input) - fed
          /\ \E wr \in {lwrb_write(rx_rb, SubSeq(input, fed + 1, fed + n))} :
                /\ rx_rb' = wr.rb
                /\ fed' = fed + wr.n
                /\ last' = IF pc = "loop" THEN [last EXCEPT !.avail = @ + wr.n] ELSE last
    /\ UNCHANGED <<cfg, pkt, tx_rb, pc, msg, input, log, sched, scen, enc, clock, thr>>

\* the program calls lwpkt_read: the call is before the first turn of its loop
TmCall ==
    /\ pc = "idle"
    /\ pc' = "loop"
    /\ last' = [op |-> "read", res |-> "NONE", evts |-> <<"PRE_READ">>, stored |-> {},
                took |-> 0, avail |-> lwrb_get_full(rx_rb)]
    /\ UNCHANGED <<cfg, pkt, tx_rb, rx_rb, msg, input, fed, log, sched, scen, enc, clock, thr>>

\* the next turn of the loop of the running call; the call returns when the
\* turn ends the loop
TmTurn ==
    /\ pc = "loop"
    /\ \E st \in {lwpkt_read_step(cfg, pkt, rx_rb)} :
          /\ pkt' = st.p
          /\ rx_rb' = st.rx_rb
          /\ last' = [last EXCEPT
                        !.res = st.res,
                        !.took = @ + st.took,
                        !.stored = @ \cup st.stored,
                        !.evts = IF st.done
                                 THEN @ \o <<"POST_READ">>
                                        \o (IF last.took + st.took > 0 THEN <<"READ">> ELSE <<>>)
                                 ELSE @]
          /\ pc' = IF st.done THEN "idle" ELSE "loop"
          /\ log' = IF st.res \in Terminal
                    THEN Append(log, [res |-> st.res, fields |-> Fields(st.p)])
                    ELSE log
    /\ UNCHANGED <<cfg, tx_rb, msg, input, fed, sched, scen, enc, clock, thr>>

TmNext == TmConnect \/ TmFeed \/ TmCall \/ TmTurn

\* the build with the default options
TmInit ==
    /\ Constructed(CfgDefault)
    /\ pc = "setup"

SpecTerm == TmInit /\ [][TmNext]_vars /\ WF_vars(TmTurn)

\* C38: a lwpkt_read call returns.  A turn of its loop takes one byte when
\* the ring has one and none otherwise; the call takes no more bytes than
\* the ring held at the call and got while it ran; it returns at the first
\* terminal verdict, or at the first turn that finds the ring empty, and at
\* no other turn; and when the driver writes finitely many bytes, every
\* call that has begun ends, whatever the driver does and although nothing
\* makes the driver go on.
C38_Returns ==
    /\ [][(pc = "loop" /\ (pc' # pc \/ rx_rb'.r # rx_rb.r)) =>
             /\ lwrb_get_full(rx_rb) = 0 =>
                   /\ pc' = "idle" /\ last'.res \in {"WAITDATA", "INPROG"}
                   /\ rx_rb' = rx_rb /\ pkt' = pkt /\ last'.took = last.took
             /\ lwrb_get_full(rx_rb) > 0 =>
                   /\ lwrb_get_full(rx_rb') = lwrb_get_full(rx_rb) - 1
                   /\ last'.took = last.took + 1
                   /\ (pc' = "idle") = (last'.res \in Terminal)
                   /\ (pc' = "loop") = (last'.res = "NONE")
             /\ last'.took <= last'.avail]_vars
    /\ [](pc = "loop" => <>(pc = "idle"))

\* a call took every byte of a frame that it had in the ring or got while
\* it ran, and returned the verdict Valid at the stop byte
C38_Witness ==
    /\ pc = "idle" /\ last.op = "read" /\ last.res = "VALID"
    /\ last.took > 1
    /\ last.avail = last.took
    /\ scen.g # <<>>
    /\ Len(log) = 1


(***************************************************************************)
(* What a reset leaves alone                                               *)
(***************************************************************************)

RECURSIVE VerdictAt(_, _, _, _)

\* t is what the switch of lwpkt_read did with the first byte of s
VerdictAtStep(c, s, k, t) ==
    IF t.res # "NONE" THEN k + 1 ELSE VerdictAt(c, t.p, Tail(s), k + 1)

\* the place in s, counted from k + 1, of the byte at which lwpkt_read,
\* from the state p on, gives its first verdict; 0 when it gives none
VerdictAt(c, p, s, k) ==
    IF s = <<>> THEN 0 ELSE VerdictAtStep(c, s, k, lwpkt_read_byte(c, p, Head(s)))

\* C39: lwpkt_reset changes the parser state m and nothing else: the
\* address, the feature flags, the payload buffer, last_rx_time and both
\* rings are as before.  The reset by the timeout of lwpkt_process and the
\* reset by a terminal error change, besides m, neither the address nor the
\* flags nor the TX ring nor the storage and the write index of the RX ring:
\* the bytes behind the byte that gave the verdict are still to be read.
C39_ResetFrame ==
    [][/\ last'.op = "reset" =>
            /\ pkt'.m = M_RESET
            /\ pkt'.addr = pkt.addr /\ pkt'.flags = pkt.flags /\ pkt'.data = pkt.data
            /\ pkt'.last_rx_time = pkt.last_rx_time
            /\ DOMAIN pkt' = DOMAIN pkt
            /\ rx_rb' = rx_rb /\ tx_rb' = tx_rb
       /\ (/\ last'.op = "process"
           /\ \/ last'.res \in {"ERRCRC", "ERRMEM", "ERR"}
              \/ last'.evts[Len(last'.evts)] = "TIMEOUT") =>
            /\ pkt'.m = M_RESET
            /\ pkt'.addr = pkt.addr /\ pkt'.flags = pkt.flags
            /\ DOMAIN pkt' = DOMAIN pkt
            /\ tx_rb' = tx_rb
            /\ rx_rb'.buff = rx_rb.buff /\ rx_rb'.w = rx_rb.w /\ rx_rb'.size = rx_rb.size
            /\ Content(rx_rb') =
                  IF last'.res \in Terminal
                  THEN SubSeq(Content(rx_rb), VerdictAt(cfg, pkt, Content(rx_rb), 0) + 1,
                              Len(Content(rx_rb)))
                  ELSE <<>>]_vars

\* a frame with a damaged CRC was fed whole to an instance with the address
\* 0x12: lwpkt_process returned ErrCrc, and the stop byte of the frame is
\* still in the RX ring
C39_Witness ==
    /\ pc = "rx" /\ last.op = "process" /\ last.res = "ERRCRC"
    /\ pkt.addr = U32(18)
    /\ pkt.m = M_RESET
    /\ Content(rx_rb) = <<LWPKT_STOP_BYTE>>
    /\ scen.calls = 1


(***************************************************************************)
(* The legacy packet module (packet.c, packet.h).  An instance is          *)
(* [addr, data, m], in the order of the members of pkt_t; the rings are    *)
(* those of the ring buffer library.                                       *)
(***************************************************************************)

PKT_MAX_DATA_LEN == 256
PKT_START_BYTE == 170
PKT_STOP_BYTE == 85

\* sizeof(pkt->m) in bytes: an enum of 4 bytes, four bytes, and two size_t
\* of 4 bytes (16) or of 8 bytes (24)
SizeofM == {16, 24}

RECURSIVE crc_in_byte(_, _, _)
\* the inner loop of crc_in on the bits of inbyte that are left (j of them)
crc_in_byte(crc, inbyte, j) ==
    IF j = 0 THEN crc
    ELSE CHOOSE r \in {crc_in_byte(nx, inbyte \div 2, j - 1) :
                          nx \in {IF (crc + inbyte) % 2 > 0
                                  THEN Xor8(crc \div 2, 140) ELSE crc \div 2}} : TRUE

RECURSIVE crc_in(_, _)
\* crc_in: the new c->crc after the bytes inp
crc_in(crc, inp) ==
    IF Len(inp) = 0 THEN crc
    ELSE CHOOSE r \in {crc_in(nx, Tail(inp)) : nx \in {crc_in_byte(crc, Head(inp), 8)}} : TRUE

\* crc_init
crc_init == 0

PKT_SET_STATE(p, s) == [p EXCEPT !.m.state = s, !.m.index = 0]

\* PKT_RESET: memset((p), 0x00, sizeof((p)->m)) clears the first sizeof(m)
\* bytes of the instance, which are addr and the first sizeof(m) - 1 bytes
\* of data; then m.state = PKT_STATE_START
PKT_RESET(sizeof_m, p) ==
    [p EXCEPT !.addr = 0,
              !.data = [i \in DOMAIN p.data |-> IF i < sizeof_m - 1 THEN 0 ELSE p.data[i]],
              !.m.state = "START"]

\* pkt_init(pkt, addr) on a valid instance
pkt_init(sizeof_m, addr) ==
    PKT_RESET(sizeof_m,
              [addr |-> addr,
               data |-> [i \in 0..(PKT_MAX_DATA_LEN - 1) |-> 0],
               m |-> [state |-> "START", crc |-> 0, from |-> 0, to |-> 0, cmd |-> 0,
                      len |-> 0, index |-> 0]])

\* one turn of the switch of pkt_read on the byte b: [p, res], res = "NONE"
\* when the switch ends in break
pkt_read_byte(sizeof_m, p, b) ==
    LET s == p.m.state
        crcd == [p EXCEPT !.m.crc = crc_in(p.m.crc, <<b>>)]
        go(q) == [p |-> q, res |-> "NONE"]
    IN
    CASE s = "START" ->
            IF b = PKT_START_BYTE
            THEN go(PKT_SET_STATE([p EXCEPT !.m.crc = crc_init], "FROM"))
            ELSE go(p)
      [] s = "FROM" -> go(PKT_SET_STATE([crcd EXCEPT !.m.from = b], "TO"))
      [] s = "TO" -> go(PKT_SET_STATE([crcd EXCEPT !.m.to = b], "CMD"))
      [] s = "CMD" -> go(PKT_SET_STATE([crcd EXCEPT !.m.cmd = b], "LEN"))
      [] s = "LEN" ->
            LET q == [crcd EXCEPT
                        !.m.len = Or16(p.m.len, (b % 128) * Pow2(7 * p.m.index)),
                        !.m.index = p.m.index + 1]
            IN  IF b < 128
                THEN go(PKT_SET_STATE(q, IF q.m.len = 0 THEN "CRC" ELSE "DATA"))
                ELSE go(q)
      [] s = "DATA" ->
            LET q == [crcd EXCEPT !.data[p.m.index] = b, !.m.index = p.m.index + 1]
            IN  IF q.m.index = q.m.len THEN go(PKT_SET_STATE(q, "CRC")) ELSE go(q)
      [] s = "CRC" ->
            IF crcd.m.crc = 0
            THEN go(PKT_SET_STATE(crcd, "STOP"))
            ELSE [p |-> PKT_RESET(sizeof_m, crcd), res |-> "ERRCRC"]
      [] OTHER ->
            [p |-> PKT_RESET(sizeof_m, p),
             res |-> IF b = PKT_STOP_BYTE THEN "VALID" ELSE "ERRSTOP"]

RECURSIVE pkt_read(_, _, _)

\* the rest of a turn of the while loop of pkt_read: t is what the switch did
pkt_read_turn(sizeof_m, rb, t) ==
    IF t.res # "NONE" THEN [p |-> t.p, rx_rb |-> rb, res |-> t.res]
    ELSE pkt_read(sizeof_m, t.p, rb)

\* rd is what ringbuff_read of one byte returned
pkt_read_got(sizeof_m, p, rd) ==
    IF Len(rd.data) # 1
    THEN [p |-> p, rx_rb |-> rd.rb,
          res |-> IF p.m.state = "START" THEN "WAITDATA" ELSE "INPROG"]
    ELSE pkt_read_turn(sizeof_m, rd.rb, pkt_read_byte(sizeof_m, p, rd.data[1]))

\* pkt_read(pkt, rx_rb) on a valid instance: [p, rx_rb, res]
pkt_read(sizeof_m, p, rb) == pkt_read_got(sizeof_m, p, lwrb_read(rb, 1))

RECURSIVE PktLenBytes(_)
\* the bytes of the do-while loop of pkt_write for the length len
PktLenBytes(len) ==
    <<(len % 128) + (IF len > 127 THEN 128 ELSE 0)>>
        \o (IF len \div 128 > 0 THEN PktLenBytes(len \div 128) ELSE <<>>)

\* the ringbuff_write calls of pkt_write, in order
pkt_write_calls(p, to_addr, cmd, data) ==
    LET covered == <<<<p.addr>>, <<to_addr>>, <<cmd>>>> \o Singles(PktLenBytes(Len(data)))
                      \o (IF Len(data) > 0 THEN <<data>> ELSE <<>>)
    IN  <<<<PKT_START_BYTE>>>> \o covered
            \o <<<<crc_in(crc_init, Flatten(covered))>>, <<PKT_STOP_BYTE>>>>

\* pkt_write on a valid instance: the TX ring after the calls; the result
\* of a ringbuff_write is not looked at and pktOK is returned
pkt_write(p, tx, to_addr, cmd, data) ==
    [tx_rb |-> WriteAll(tx, pkt_write_calls(p, to_addr, cmd, data), <<>>).rb, res |-> "OK"]


(***************************************************************************)
(* SpecLegacy: a program that makes an instance with pkt_init and then,    *)
(* frame after frame, calls pkt_write, moves the TX ring to the RX ring    *)
(* and calls pkt_read.  cfg is the size of pkt->m in the build; msg is     *)
(* the address given to pkt_init and the arguments of the last pkt_write.  *)
(***************************************************************************)

LgRingSize == 40
LgFrames == 2

LgAddrs == {18, 133}
LgPayloads == {<<>>, <<72>>, <<72, 73>>, [i \in 1..25 |-> 64 + i]}

LgInit ==
    /\ \E sz \in SizeofM, addr \in LgAddrs :
          /\ cfg = [sizeof_m |-> sz]
          /\ pkt = pkt_init(sz, addr)
          /\ msg = [addr |-> addr, to |-> 0, cmd |-> 0, data |-> <<>>]
    /\ tx_rb = lwrb_init(LgRingSize)
    /\ rx_rb = lwrb_init(LgRingSize)
    /\ pc = "idle"
    /\ last = [op |-> "pkt_init", res |-> "OK"]
    /\ input = <<>>
    /\ fed = 0
    /\ log = <<>>
    /\ sched = TRUE
    /\ scen = NoScen
    /\ enc = NoEnc
    /\ clock = NoClock
    /\ thr = NoThr

LgWrite ==
    /\ pc = "idle"
    /\ Len(log) < LgFrames
    /\ \E to_addr \in {17, 255}, cmd \in {0, 133}, data \in LgPayloads :
          \E w \in {pkt_write(pkt, tx_rb, to_addr, cmd, data)} :
              /\ tx_rb' = w.tx_rb
              /\ last' = [op |-> "pkt_write", res |-> w.res]
              /\ msg' = [msg EXCEPT !.to = to_addr, !.cmd = cmd, !.data = data]
    /\ pc' = "written"
    /\ UNCHANGED <<cfg, pkt, rx_rb, input, fed, log, sched, scen, enc, clock, thr>>

LgMove ==
    /\ pc = "written"
    /\ \E mv \in {Loopback(tx_rb, rx_rb)} :
          /\ tx_rb' = mv.tx
          /\ rx_rb' = mv.rx
    /\ pc' = "moved"
    /\ UNCHANGED <<cfg, pkt, last, msg, input, fed, log, sched, scen, enc, clock, thr>>

LgRead ==
    /\ pc = "moved"
    /\ \E r \in {pkt_read(cfg.sizeof_m, pkt, rx_rb)} :
          /\ pkt' = r.p
          /\ rx_rb' = r.rx_rb
          /\ last' = [op |-> "pkt_read", res |-> r.res]
          /\ log' = Append(log, r.res)
    /\ pc' = "idle"
    /\ UNCHANGED <<cfg, tx_rb, msg, input, fed, sched, scen, enc, clock, thr>>

LgNext == LgWrite \/ LgMove \/ LgRead

SpecLegacy == LgInit /\ [][LgNext]_vars

\* C40: after pkt_write and pkt_read on the same instance, for every frame
\* of a sequence, pkt_read has returned pktVALID, pkt_get_from_addr is the
\* own address, pkt_get_to_addr, pkt_get_cmd and pkt_get_data_len are the
\* arguments of pkt_write, the bytes at pkt_get_data are the payload, and
\* the own address is the one given to pkt_init
C40_LegacyRoundTrip ==
    (pc = "idle" /\ last.op = "pkt_read") =>
        /\ last.res = "VALID"
        /\ pkt.m.from = msg.addr
        /\ pkt.m.to = msg.to
        /\ pkt.m.cmd = msg.cmd
        /\ pkt.m.len = Len(msg.data)
        /\ \A i \in 1..Len(msg.data) : pkt.data[i - 1] = msg.data[i]
        /\ pkt.addr = msg.addr

====
